---- MODULE Spec2Model ----
(***************************************************************************)
(* Verification model of the seraph / verdict assessment pipeline:         *)
(*   - the score fusion of core/reporter.py (build_report and helpers),    *)
(*   - the 7-step engines of core/engine.py (SeraphEngine, VerdictEngine), *)
(*   - the layered configuration of config.py (ScoringConfig, load).       *)
(*                                                                         *)
(* Numbers.  Scores are exact decimals held as integers in hundredths of   *)
(* a point (100.0 is 10000); weights are integers in ten-thousandths (0.30 *)
(* is 3000).  A quotient n/d is carried as the pair (n, d) until the code  *)
(* rounds or compares it, so rounding happens where the code rounds.       *)
(***************************************************************************)
EXTENDS Integers, Sequences, FiniteSets, TLC

VARIABLES
    cfg,          \* engine construction: which engine, operation, skip flags, scanners
    pc,           \* position of the running assess / mutate_only call
    loc,          \* the call's local variables
    stage,        \* per stage: "not_run", "ok" or "raised"
    report,       \* <<>> or <<r>>: the report the call has built
    outcome,      \* "running", "returned" or "raised"
    assessments,  \* the store's assessments rows, in insertion order
    saves,        \* number of save_assessment calls the engine call has made
    rargs,        \* <<>> or <<a, a2>>: arguments of a direct build_report call and of its re-run
    rreport,      \* <<>> or <<r>>: its report
    rshadow,      \* <<>> or <<r>>: report of the same call with other raw scores
                  \*   for the dimensions that are not evaluated
    toml,         \* [scoring] table of config.toml: a set of <<field, value>>
    env,          \* environment: a set of <<variable name, string>>
    scoring,      \* <<>> or <<c>>: the ScoringConfig built from them
    sin,          \* <<>> or <<i>>: analyzer outputs handed to the score functions
    sout,         \* <<>> or <<r>>: the report built from their scores
    brun,         \* <<>> or <<b>>: run_count and the failure set of each test run
    bres,         \* <<>>, <<r>> or <<r, score>>: the BaselineResult of run_baseline
                  \*   and the baseline score computed from it
    db,           \* the committed content of the store's database file
    tx,           \* the content the open connection sees: db and its uncommitted rows
    sret,         \* the last store operation, its arguments and what it returned
    mig,          \* open() of a store file: stored schema_version, the registered
                  \*   migrations, the position of _init_schema / _run_migrations
    dcall,        \* a parse_diff call: its refs, its position, the last git
                  \*   invocation and the DiffResult it returned
    bridge,       \* a SentinelBridge: what it found on construction, its _store
                  \*   and _available, and what get_risk_signals returned
    trunc,        \* a _truncate call: its text, its max_chars and what it returned
    mrun,         \* a run_mutations call: its files, the loop position, the results
                  \*   so far, tool_available, and the score computed from the results
    conns         \* two connections to one store file: who holds the write lock, the
                  \*   content its open transaction sees, a prune call between its
                  \*   SELECT and its DELETEs, and the last operation

vars == <<cfg, pc, loc, stage, report, outcome, assessments, saves,
          rargs, rreport, rshadow, toml, env, scoring, sin, sout,
          brun, bres, db, tx, sret, mig, dcall, bridge, trunc, mrun, conns>>

engineVars == <<cfg, pc, loc, stage, report, outcome, assessments, saves>>
reportVars == <<rargs, rreport, rshadow>>
configVars == <<toml, env, scoring>>
scoreVars == <<sin, sout>>

baselineVars == <<brun, bres>>
storeVars == <<db, tx, sret>>

\* the variables of the operations that are modelled on their own further below
toolVars == <<trunc, mrun, conns>>

\* the variables of the library operations that are called on their own
libVars == <<scoreVars, baselineVars, storeVars, mig, dcall, bridge, toolVars>>

\* what each library operation leaves alone
notScore == <<engineVars, reportVars, configVars, baselineVars, storeVars, mig, dcall,
              bridge, toolVars>>
notBaseline == <<engineVars, reportVars, configVars, scoreVars, storeVars, mig, dcall,
                 bridge, toolVars>>
notStore == <<engineVars, reportVars, configVars, scoreVars, baselineVars, mig, dcall,
              bridge, toolVars>>
notMigration == <<engineVars, reportVars, configVars, scoreVars, baselineVars, storeVars,
                  dcall, bridge, toolVars>>
notDiff == <<engineVars, reportVars, configVars, scoreVars, baselineVars, storeVars, mig,
             bridge, toolVars>>
notBridge == <<engineVars, reportVars, configVars, scoreVars, baselineVars, storeVars, mig,
               dcall, toolVars>>

notShared == <<engineVars, reportVars, configVars, scoreVars, baselineVars, tx, sret, mig,
               dcall, bridge, trunc, mrun>>

notTruncate == <<engineVars, reportVars, configVars, scoreVars, baselineVars, storeVars, mig,
                 dcall, bridge, mrun, conns>>

notMutator == <<engineVars, reportVars, configVars, scoreVars, baselineVars, storeVars, mig,
                dcall, bridge, trunc, conns>>

notTool == <<engineVars, reportVars, configVars, scoreVars, baselineVars, storeVars, mig,
             dcall, bridge>>

ScoreIdle == sin = <<>> /\ sout = <<>>

BaselineIdle == brun = <<>> /\ bres = <<>>

EmptyTables == [assessments |-> {}, mutation_cache |-> {}, baselines |-> {}, feedback |-> {}]

StoreIdle == db = EmptyTables /\ tx = EmptyTables /\ sret = [op |-> "open"]

\* a store file that nothing has opened yet
NoMigration == [schema_version |-> 1, registry |-> {}, stored |-> <<>>, current |-> <<>>,
                pc |-> "closed", version |-> 1, ran |-> <<>>,
                file |-> [script |-> FALSE, migrated |-> {}],
                before |-> [script |-> FALSE, migrated |-> {}]]

MigrationIdle == mig = NoMigration

\* no parse_diff call
NoDiffCall == [ref_before |-> <<>>, ref_after |-> <<>>, pc |-> "idle", cmd |-> <<>>,
               invocations |-> 0, exc |-> "", proc |-> <<>>, result |-> <<>>,
               report |-> <<>>, persisted |-> FALSE]

DiffIdle == dcall = NoDiffCall

\* no SentinelBridge
NoBridge == [db_exists |-> FALSE, importable |-> FALSE, opening |-> "ok",
             pitfalls |-> <<>>, fs |-> "none", changed_files |-> <<>>,
             pc |-> "idle", store |-> <<>>, available |-> FALSE, queries |-> 0,
             signals |-> <<>>]

BridgeIdle == bridge = NoBridge

\* no _truncate call
NoTruncate == [text |-> <<>>, max_chars |-> 0, pc |-> "idle", result |-> <<>>]

\* two connections that have done nothing
NoConnections == [writer |-> 0, pending |-> EmptyTables, pruning |-> <<<<>>, <<>>>>,
                  last |-> [op |-> "open", conn |-> 0]]

\* no run_mutations call
NoMutationRun == [files |-> <<>>, pc |-> "idle", next |-> 1, all_results |-> <<>>,
                  tool_available |-> FALSE, calls |-> <<>>, score |-> <<>>]

ToolIdle == trunc = NoTruncate /\ mrun = NoMutationRun /\ conns = NoConnections

LibIdle ==
    /\ ScoreIdle /\ BaselineIdle /\ StoreIdle /\ MigrationIdle /\ DiffIdle /\ BridgeIdle
    /\ ToolIdle

(***************************************************************************)
(* Bounds of the model.                                                    *)
(***************************************************************************)
MaxMutants == 1      \* mutation results returned by one run_mutations call
MaxFlaky == 1        \* flaky tests found by one run_baseline call

(***************************************************************************)
(* Generic helpers.                                                        *)
(***************************************************************************)
RECURSIVE SumSeq(_)
SumSeq(s) == IF s = <<>> THEN 0 ELSE Head(s) + SumSeq(Tail(s))

RECURSIVE MapWeight(_)
MapWeight(s) == IF s = <<>> THEN <<>> ELSE <<Head(s).weight>> \o MapWeight(Tail(s))

RECURSIVE MapRawTimesWeight(_)
MapRawTimesWeight(s) ==
    IF s = <<>> THEN <<>>
    ELSE <<Head(s).raw_score * Head(s).weight>> \o MapRawTimesWeight(Tail(s))

Max(a, b) == IF a >= b THEN a ELSE b
Min(a, b) == IF a <= b THEN a ELSE b

CountIf(s, Test(_)) == Cardinality({i \in 1..Len(s) : Test(s[i])})

(***************************************************************************)
(* round(x, 1) for the non-negative quotient x = n/d (hundredths of a      *)
(* point): the nearest multiple of a tenth, a tie going to the even tenth. *)
(***************************************************************************)
round1(n, d) ==
    LET unit == 10 * d
        f == n \div unit
        r == n % unit
    IN  IF 2 * r < unit THEN 10 * f
        ELSE IF 2 * r > unit THEN 10 * (f + 1)
        ELSE IF f % 2 = 0 THEN 10 * f ELSE 10 * (f + 1)

(***************************************************************************)
(* models/enums.py: Grade.from_score on the quotient n/d.                  *)
(***************************************************************************)
DefaultThresholds == <<9000, 7500, 6000, 4000>>

from_score(n, d, thresholds) ==
    IF n >= thresholds[1] * d THEN "A"
    ELSE IF n >= thresholds[2] * d THEN "B"
    ELSE IF n >= thresholds[3] * d THEN "C"
    ELSE IF n >= thresholds[4] * d THEN "D"
    ELSE "F"

(***************************************************************************)
(* config.py: ScoringConfig.                                               *)
(***************************************************************************)
ScoringDefaults ==
    [mutation_weight |-> 3000, static_weight |-> 2000, baseline_weight |-> 1500,
     sentinel_risk_weight |-> 2000, co_change_weight |-> 1500,
     grade_a |-> 9000, grade_b |-> 7500, grade_c |-> 6000, grade_d |-> 4000,
     baseline_deduction_per_flaky |-> 1000,
     risk_deduction_per_pitfall |-> 500,
     risk_deduction_per_missing_co_change |-> 300,
     risk_hot_file_churn_divisor |-> 5,
     risk_hot_file_max_deduction |-> 1000,
     static_issue_scale_factor |-> 10,
     severity_critical |-> 10, severity_high |-> 5, severity_medium |-> 2,
     severity_low |-> 1, severity_info |-> 0]

WeightFields == {"mutation_weight", "static_weight", "baseline_weight",
                 "sentinel_risk_weight", "co_change_weight"}

dimension_weights(sc) ==
    [mutation |-> sc.mutation_weight, static |-> sc.static_weight,
     baseline |-> sc.baseline_weight, sentinel_risk |-> sc.sentinel_risk_weight,
     co_change |-> sc.co_change_weight]

grade_thresholds(sc) == <<sc.grade_a, sc.grade_b, sc.grade_c, sc.grade_d>>

(***************************************************************************)
(* core/reporter.py: the score functions.                                  *)
(*   baseline  : a sequence of at most one [flaky_tests, run_count]        *)
(*   mutations : a sequence of [status]                                    *)
(*   findings  : a sequence of [severity, analyzer]                        *)
(*   signals   : [available, pitfall_matches, hot_files, missing_co_changes]*)
(***************************************************************************)
IsKilled(m) == m.status = "killed"

\* a score that takes the deduction once, however many tests are flaky
DeductsOnce(baseline, sc) ==
    IF Len(baseline.flaky_tests) = 0 THEN 10000
    ELSE Max(0, 10000 - sc.baseline_deduction_per_flaky)

compute_baseline_score(baseline, sc) ==
    LET flaky_count == Len(baseline.flaky_tests)
    IN  IF flaky_count = 0 THEN 10000
        ELSE Max(0, 10000 - flaky_count * sc.baseline_deduction_per_flaky)

compute_mutation_score(results) ==
    IF results = <<>> THEN 10000
    ELSE round1(CountIf(results, IsKilled) * 10000, Len(results))

_get_severity_weights(sc) ==
    [critical |-> sc.severity_critical, high |-> sc.severity_high,
     medium |-> sc.severity_medium, low |-> sc.severity_low,
     info |-> sc.severity_info]

RECURSIVE MapSeverityWeight(_, _)
MapSeverityWeight(findings, w) ==
    IF findings = <<>> THEN <<>>
    ELSE <<w[Head(findings).severity]>> \o MapSeverityWeight(Tail(findings), w)

compute_static_score(findings, file_count, sc) ==
    IF file_count = 0 THEN 10000
    ELSE LET weighted_issues == SumSeq(MapSeverityWeight(findings, _get_severity_weights(sc)))
             \* 100 - (weighted_issues / file_count) * scale, over file_count
             n == 10000 * file_count
                    - weighted_issues * sc.static_issue_scale_factor * 100
         IN  round1(Max(0, n), file_count)

RECURSIVE MapHotDeduction(_, _)
MapHotDeduction(hot_files, sc) ==
    IF hot_files = <<>> THEN <<>>
    ELSE <<Min(sc.risk_hot_file_max_deduction * sc.risk_hot_file_churn_divisor,
               Head(hot_files).churn_score * 100)>>
         \o MapHotDeduction(Tail(hot_files), sc)

compute_risk_score(signals, sc) ==
    IF ~signals.available THEN 10000
    ELSE LET d == sc.risk_hot_file_churn_divisor
             \* all deductions over the common denominator d
             deductions ==
                 SumSeq(MapHotDeduction(signals.hot_files, sc))
                 + Len(signals.pitfall_matches) * sc.risk_deduction_per_pitfall * d
                 + Len(signals.missing_co_changes)
                     * sc.risk_deduction_per_missing_co_change * d
         IN  round1(Max(0, 10000 * d - deductions), d)

compute_co_change_score(signals, changed_files) ==
    IF ~signals.available THEN 10000
    ELSE LET missing == Len(signals.missing_co_changes)
             total_partners == Len(changed_files) + missing
         IN  IF missing = 0 /\ changed_files = <<>> THEN 10000
             ELSE IF total_partners = 0 THEN 10000
             ELSE round1(Len(changed_files) * 10000, total_partners)

(***************************************************************************)
(* The security score and the Security dimension are called by engine.py   *)
(* but defined in a reporter revision that is not among the sources; they  *)
(* follow the specification: the static shape with a CWE-tier multiplier   *)
(* (tier 0: x0.1, tier 1: x3, tier 2: x2, otherwise x1), in tenths here.   *)
(***************************************************************************)
SecurityWeight == 1500
SecurityIssueScale == 10

CweTierTenths(f) ==
    CASE f.tier = 0 -> 1
      [] f.tier = 1 -> 30
      [] f.tier = 2 -> 20
      [] OTHER -> 10

RECURSIVE MapSecurityWeight(_, _)
MapSecurityWeight(findings, w) ==
    IF findings = <<>> THEN <<>>
    ELSE <<w[Head(findings).severity] * CweTierTenths(Head(findings))>>
         \o MapSecurityWeight(Tail(findings), w)

compute_security_score(findings, file_count, sc) ==
    IF file_count = 0 THEN 10000
    ELSE LET weighted_tenths ==
                 SumSeq(MapSecurityWeight(findings, _get_severity_weights(sc)))
             n == 10000 * file_count * 10 - weighted_tenths * SecurityIssueScale * 100
         IN  round1(Max(0, n), file_count * 10)

(***************************************************************************)
(* core/reporter.py: detail formatters.                                    *)
(***************************************************************************)
_mutation_details(mutations) ==
    IF mutations = <<>> THEN "No mutations (skipped or no mutable code)"
    ELSE LET total == Len(mutations)
             killed == CountIf(mutations, IsKilled)
         IN  ToString(killed) \o "/" \o ToString(total) \o " killed, "
             \o ToString(total - killed) \o " survived"

_static_details(findings) ==
    IF findings = <<>> THEN "No issues found"
    ELSE LET IsMypy(f) == f.analyzer = "mypy"
             IsRuff(f) == f.analyzer = "ruff"
             mypy == CountIf(findings, IsMypy)
             ruff == CountIf(findings, IsRuff)
         IN  IF mypy > 0 /\ ruff > 0
             THEN ToString(mypy) \o " mypy, " \o ToString(ruff) \o " ruff"
             ELSE IF mypy > 0 THEN ToString(mypy) \o " mypy"
             ELSE ToString(ruff) \o " ruff"

_baseline_details(baseline) ==
    IF baseline = <<>> THEN "Baseline not run"
    ELSE LET flaky == Len(baseline[1].flaky_tests)
         IN  IF flaky = 0
             THEN "All stable across " \o ToString(baseline[1].run_count) \o " runs"
             ELSE ToString(flaky) \o " flaky test(s) detected across "
                  \o ToString(baseline[1].run_count) \o " runs"

_sentinel_details(signals) ==
    IF ~signals.available THEN "Sentinel data not available"
    ELSE LET p == Len(signals.pitfall_matches)
             h == Len(signals.hot_files)
         IN  IF p > 0 /\ h > 0
             THEN ToString(p) \o " pitfall match(es), " \o ToString(h) \o " hot file(s)"
             ELSE IF p > 0 THEN ToString(p) \o " pitfall match(es)"
             ELSE IF h > 0 THEN ToString(h) \o " hot file(s)"
             ELSE "No risk signals"

_cochange_details(signals) ==
    IF ~signals.available THEN "Sentinel data not available"
    ELSE IF signals.missing_co_changes = <<>> THEN "All co-change partners included"
    ELSE "Missing: " \o ToString(Len(signals.missing_co_changes)) \o " partner(s)"

_security_details(findings) ==
    IF findings = <<>> THEN "No security issues found"
    ELSE ToString(Len(findings)) \o " security finding(s)"

(***************************************************************************)
(* core/reporter.py: _score_dimension, _identify_gaps, build_report.       *)
(***************************************************************************)
_score_dimension(name, raw_score, weight, details, evaluated, thresholds) ==
    IF ~evaluated
    THEN [name |-> name, raw_score |-> raw_score, weight |-> weight,
          weighted_score |-> 0,
          grade |-> from_score(raw_score, 1, thresholds),
          details |-> "Not evaluated", evaluated |-> FALSE]
    ELSE [name |-> name, raw_score |-> round1(raw_score, 1), weight |-> weight,
          weighted_score |-> round1(raw_score * weight, 10000),
          grade |-> from_score(raw_score, 1, thresholds),
          details |-> details, evaluated |-> TRUE]

IsEvaluated(d) == d.evaluated

GapOf(d) == [name |-> d.name, grade |-> d.grade, raw_score |-> d.raw_score,
             details |-> d.details]

RECURSIVE GapsOfAll(_)
GapsOfAll(dimensions) ==
    IF dimensions = <<>> THEN <<>>
    ELSE LET d == Head(dimensions)
         IN  (IF d.grade \in {"C", "D", "F"} THEN <<GapOf(d)>> ELSE <<>>)
             \o GapsOfAll(Tail(dimensions))

RECURSIVE _identify_gaps(_)
_identify_gaps(dimensions) ==
    IF dimensions = <<>> THEN <<>>
    ELSE LET d == Head(dimensions)
         IN  (IF ~d.evaluated THEN <<>>
              ELSE IF d.grade \in {"C", "D", "F"} THEN <<GapOf(d)>>
              ELSE <<>>)
             \o _identify_gaps(Tail(dimensions))

\* reporter.py line 200: the dimensions that enter the overall score
evaluated_dims(dimensions) == SelectSeq(dimensions, IsEvaluated)

\* reporter.py lines 201-208: the overall score as the quotient <<n, d>>
OverallNotRenormalized(dimensions) ==
    LET e == evaluated_dims(dimensions)
    IN  IF e = <<>> THEN <<10000, 1>> ELSE <<SumSeq(MapRawTimesWeight(e)), 10000>>

overall(dimensions) ==
    LET e == evaluated_dims(dimensions)
        total_weight == SumSeq(MapWeight(e))
    IN  IF e # <<>> /\ total_weight > 0
        THEN <<SumSeq(MapRawTimesWeight(e)), total_weight>>
        ELSE <<10000, 1>>

all_dims(args) ==
    {"mutation", "static", "baseline", "sentinel_risk", "co_change"}
    \cup (IF args.with_security THEN {"security"} ELSE {})

\* The sixth dimension of the six-dimension reporter the engine calls.
SecurityDimension(args, evaluated, thresholds) ==
    _score_dimension("Security", args.security_score, SecurityWeight,
                     _security_details(args.security_findings),
                     "security" \in evaluated, thresholds)

build_report(args) ==
    LET evaluated == IF args.evaluated_dimensions # <<>>
                     THEN args.evaluated_dimensions[1] ELSE all_dims(args)
        weights == dimension_weights(args.scoring)
        thresholds == grade_thresholds(args.scoring)
        dimensions ==
            << _score_dimension("Mutation Score", args.mutation_score,
                   weights.mutation, _mutation_details(args.mutations),
                   "mutation" \in evaluated, thresholds),
               _score_dimension("Static Cleanliness", args.static_score,
                   weights.static, _static_details(args.static_findings),
                   "static" \in evaluated, thresholds),
               _score_dimension("Test Baseline", args.baseline_score,
                   weights.baseline, _baseline_details(args.baseline),
                   "baseline" \in evaluated, thresholds),
               _score_dimension("Sentinel Risk", args.sentinel_risk_score,
                   weights.sentinel_risk, _sentinel_details(args.sentinel_signals),
                   "sentinel_risk" \in evaluated, thresholds),
               _score_dimension("Co-change Coverage", args.co_change_score,
                   weights.co_change, _cochange_details(args.sentinel_signals),
                   "co_change" \in evaluated, thresholds) >>
            \o (IF args.with_security
                THEN <<SecurityDimension(args, evaluated, thresholds)>> ELSE <<>>)
        overall_score == overall(dimensions)
    IN  [id |-> args.id,
         files_changed |-> args.files_changed,
         dimensions |-> dimensions,
         overall_score |-> round1(overall_score[1], overall_score[2]),
         overall_grade |-> from_score(overall_score[1], overall_score[2], thresholds),
         mutation_score |-> args.mutation_score,
         static_issues |-> Len(args.static_findings),
         sentinel_warnings |-> Len(args.sentinel_signals.pitfall_matches)
                               + Len(args.sentinel_signals.hot_files),
         baseline_flaky |-> IF args.baseline # <<>>
                            THEN Len(args.baseline[1].flaky_tests) ELSE 0,
         gaps |-> _identify_gaps(dimensions),
         mutations |-> args.mutations,
         static_findings |-> args.static_findings,
         security_findings |-> args.security_findings,
         baseline |-> args.baseline,
         sentinel_signals |-> args.sentinel_signals]

NoSignals == [available |-> FALSE, pitfall_matches |-> <<>>, hot_files |-> <<>>,
              missing_co_changes |-> <<>>]

(***************************************************************************)
(* Direct calls of build_report (as the reporter's tests make them): the   *)
(* five-dimension signature of core/reporter.py, every argument drawn from *)
(* a small set.  Each call is made twice, the second time with another     *)
(* raw score for each dimension that is not evaluated.                     *)
(***************************************************************************)
MutationScoreInputs == {5000, 6667, 9000, 10000}
StaticScoreInputs == {8000, 8990, 10000}
BaselineScoreInputs == {0, 10000}
RiskScoreInputs == {7000, 10000}
CoChangeScoreInputs == {3333, 6000, 10000}
ShadowScoreInputs == {0, 9500}

FiveDims == {"mutation", "static", "baseline", "sentinel_risk", "co_change"}

EvaluatedInputs == {<<>>} \cup {<<e>> : e \in SUBSET FiveDims}

ScoringInputs ==
    { ScoringDefaults,
      [ScoringDefaults EXCEPT !.mutation_weight = 5000, !.static_weight = 1000],
      [ScoringDefaults EXCEPT !.mutation_weight = 0, !.static_weight = 0,
                              !.grade_a = 9500, !.grade_b = 8000,
                              !.grade_c = 6500, !.grade_d = 5000] }

ReportArgs(m, s, b, r, c, e, sc) ==
    [id |-> 0, files_changed |-> <<"foo.py">>,
     mutation_score |-> m, static_score |-> s, baseline_score |-> b,
     sentinel_risk_score |-> r, co_change_score |-> c,
     mutations |-> <<[status |-> "survived"]>>,
     static_findings |-> <<[severity |-> "low", analyzer |-> "ruff"]>>,
     baseline |-> <<>>, sentinel_signals |-> NoSignals,
     evaluated_dimensions |-> e, scoring |-> sc,
     with_security |-> FALSE, security_score |-> 10000, security_findings |-> <<>>]

EvaluatedOf(args) ==
    IF args.evaluated_dimensions # <<>> THEN args.evaluated_dimensions[1]
    ELSE all_dims(args)

\* args with raw score v for every dimension that is not evaluated
Shadow(args, v) ==
    LET e == EvaluatedOf(args)
    IN  [args EXCEPT
           !.mutation_score = IF "mutation" \in e THEN @ ELSE v,
           !.static_score = IF "static" \in e THEN @ ELSE v,
           !.baseline_score = IF "baseline" \in e THEN @ ELSE v,
           !.sentinel_risk_score = IF "sentinel_risk" \in e THEN @ ELSE v,
           !.co_change_score = IF "co_change" \in e THEN @ ELSE v]

\* the argument lists of one build_report call and of its second run
ReportCalls ==
    { <<ReportArgs(m, s, b, r, c, e, sc), Shadow(ReportArgs(m, s, b, r, c, e, sc), v)>> :
        m \in MutationScoreInputs, s \in StaticScoreInputs,
        b \in BaselineScoreInputs, r \in RiskScoreInputs,
        c \in CoChangeScoreInputs, e \in EvaluatedInputs,
        sc \in ScoringInputs, v \in ShadowScoreInputs }

BuildReportCall ==
    /\ rargs # <<>>
    /\ rreport = <<>>
    /\ rreport' = <<build_report(rargs[1])>>
    /\ rshadow' = <<build_report(rargs[2])>>
    /\ UNCHANGED <<rargs, engineVars, configVars, libVars>>

(***************************************************************************)
(* core/differ.py: DiffResult.file_paths / python_files.  The diff is an   *)
(* input: one of a few ordered path lists.                                 *)
(***************************************************************************)
PyPaths == {"src/foo.py"}

DiffInputs == { <<>>, <<"README.md">>, <<"src/foo.py">>, <<"src/foo.py", "README.md">> }

EndsWithPy(path) == path \in PyPaths

python_files(files) == SelectSeq(files, EndsWithPy)

(***************************************************************************)
(* Engine construction (SeraphEngine.__init__ / VerdictEngine.__init__)    *)
(* and the security configuration's enabled scanners.                      *)
(***************************************************************************)
Scanners == {"bandit", "semgrep", "detect-secrets"}

ScannerConfigs == { {}, {"bandit"}, {"detect-secrets"}, Scanners }

EngineConfigs ==
    { [engine |-> "seraph", op |-> "assess", skip_baseline |-> sb,
       skip_mutations |-> sm, scanners |-> sc] :
          sb \in BOOLEAN, sm \in BOOLEAN, sc \in ScannerConfigs }
    \cup { [engine |-> "seraph", op |-> "mutate_only", skip_baseline |-> FALSE,
            skip_mutations |-> FALSE, scanners |-> Scanners] }
    \cup { [engine |-> "verdict", op |-> "assess", skip_baseline |-> sk,
            skip_mutations |-> sk, scanners |-> {}] : sk \in BOOLEAN }
    \cup { [engine |-> "verdict", op |-> "mutate_only", skip_baseline |-> FALSE,
            skip_mutations |-> FALSE, scanners |-> {}] }

StageNames == {"baseline", "mutation", "static", "security", "sentinel"}

\* The SentinelBridge of one assess call.  _store: the bridge holds a
\* KnowledgeStore; handle: that store's database handle is "none" (never
\* created), "open" or "closed".
NoHandle == [_store |-> FALSE, _available |-> FALSE, handle |-> "none"]

\* tool_config = {}: tool_config.get(analyzer, True) is True for every analyzer
NoToolConfig == [ruff |-> TRUE, mypy |-> TRUE]

InitLoc ==
    [files |-> <<>>, evaluated |-> {},
     baseline |-> <<>>, baseline_score |-> 10000,
     mutations |-> <<>>, mutation_score |-> 10000, mutation_tool_available |-> FALSE,
     static_findings |-> <<>>, static_score |-> 10000,
     tool_config |-> NoToolConfig,
     security_findings |-> <<>>, security_score |-> 10000,
     tools_available |-> [reported |-> {}, available |-> {}],
     sentinel_signals |-> NoSignals,
     sentinel_risk_score |-> 10000, co_change_score |-> 10000,
     bridge |-> NoHandle]

NewId == 1

\* store.save_assessment: the assessments row of a report
RowOf(r) == [id |-> r.id, grade |-> r.overall_grade, files_changed |-> r.files_changed]

\* Arguments the engines pass to build_report
SeraphReportArgs(l) ==
    [id |-> NewId, files_changed |-> l.files,
     mutation_score |-> l.mutation_score, static_score |-> l.static_score,
     baseline_score |-> l.baseline_score,
     sentinel_risk_score |-> l.sentinel_risk_score,
     co_change_score |-> l.co_change_score,
     mutations |-> l.mutations, static_findings |-> l.static_findings,
     baseline |-> l.baseline, sentinel_signals |-> l.sentinel_signals,
     evaluated_dimensions |-> <<l.evaluated>>, scoring |-> ScoringDefaults,
     with_security |-> TRUE, security_score |-> l.security_score,
     security_findings |-> l.security_findings]

VerdictReportArgs(l) ==
    [SeraphReportArgs(l) EXCEPT !.evaluated_dimensions = <<>>,
                                !.with_security = FALSE]

\* a report that shows the diff as failed: no mutant killed
ReportOfFailedDiff(engine) ==
    build_report([SeraphReportArgs(InitLoc) EXCEPT
                     !.mutation_score = 0,
                     !.evaluated_dimensions = <<>>,
                     !.with_security = (engine = "seraph")])

\* SeraphEngine._empty_report / VerdictEngine._empty_report
_empty_report(engine) ==
    build_report([SeraphReportArgs(InitLoc) EXCEPT
                     !.evaluated_dimensions = <<>>,
                     !.with_security = (engine = "seraph")])

\* self._store.save_assessment(report); return report -- the insert may raise
SaveAndReturn(r) ==
    /\ report' = <<r>>
    /\ saves' = saves + 1
    /\ pc' = "done"
    /\ \/ /\ assessments' = Append(assessments, RowOf(r))
          /\ outcome' = "returned"
       \/ /\ UNCHANGED assessments
          /\ outcome' = "raised"

\* an exception leaves assess: nothing is built, saved or returned
Propagate ==
    /\ pc' = "done"
    /\ outcome' = "raised"
    /\ UNCHANGED <<report, assessments, saves>>

\* What a raising stage does to the call: SeraphEngine.assess logs it and goes
\* on to the next stage, VerdictEngine.assess has no handler.
StageRaises(name, next) ==
    /\ stage' = [stage EXCEPT ![name] = "raised"]
    /\ UNCHANGED loc
    /\ IF cfg.engine = "seraph"
       THEN pc' = next /\ UNCHANGED <<report, outcome, assessments, saves>>
       ELSE Propagate

Continue(next) ==
    /\ pc' = next
    /\ UNCHANGED <<report, outcome, assessments, saves>>

(***************************************************************************)
(* assess, step 1: diff; the empty diff is reported at once.               *)
(***************************************************************************)
Step1Diff ==
    /\ pc = "idle" /\ cfg.op = "assess"
    /\ \E files \in DiffInputs :
          /\ loc' = [loc EXCEPT !.files = files,
                       !.evaluated = IF cfg.engine = "seraph"
                                     THEN {"static", "sentinel_risk", "co_change"}
                                     ELSE {}]
          /\ IF files = <<>>
             THEN IF cfg.engine = "seraph"
                  THEN SaveAndReturn(_empty_report("seraph"))
                  ELSE /\ report' = <<_empty_report("verdict")>>
                       /\ pc' = "done"
                       /\ outcome' = "returned"
                       /\ UNCHANGED <<assessments, saves>>
             ELSE Continue("baseline")
    /\ UNCHANGED <<cfg, stage, reportVars, configVars, libVars>>

(***************************************************************************)
(* Step 2: baseline.                                                       *)
(***************************************************************************)
FlakyNames == <<"t_a", "t_b", "t_c">>

BaselineResults ==
    { [flaky_tests |-> SubSeq(FlakyNames, 1, k), run_count |-> 3] : k \in 0..MaxFlaky }

Step2Baseline ==
    /\ pc = "baseline"
    /\ IF ~cfg.skip_baseline /\ python_files(loc.files) # <<>>
       THEN \/ StageRaises("baseline", "mutate")
            \/ \E b \in BaselineResults :
                  /\ loc' = [loc EXCEPT
                       !.baseline = <<b>>,
                       !.baseline_score = compute_baseline_score(b, ScoringDefaults),
                       !.evaluated = IF cfg.engine = "seraph"
                                     THEN @ \cup {"baseline"} ELSE @]
                  /\ stage' = [stage EXCEPT !["baseline"] = "ok"]
                  /\ Continue("mutate")
       ELSE UNCHANGED <<loc, stage>> /\ Continue("mutate")
    /\ UNCHANGED <<cfg, reportVars, configVars, libVars>>

(***************************************************************************)
(* Step 3: mutation.  run_mutations returns (results, tool_available);     *)
(* results are there only when the runner was launched.                    *)
(***************************************************************************)
MutantStatuses == {"killed", "survived"}

RECURSIVE StatusSeqs(_)
StatusSeqs(n) ==
    IF n = 0 THEN { <<>> }
    ELSE LET shorter == StatusSeqs(n - 1)
         IN  shorter \cup { Append(q, [status |-> st]) :
                              q \in {x \in shorter : Len(x) = n - 1},
                              st \in MutantStatuses }

MutationRuns ==
    { [results |-> r, tool_available |-> a] :
        r \in StatusSeqs(MaxMutants), a \in BOOLEAN } \ 
    { [results |-> r, tool_available |-> FALSE] :
        r \in StatusSeqs(MaxMutants) \ { <<>> } }

\* engine.py lines 108-112: take the run's results; evaluated only with results
TakeMutationRun(l, run) ==
    [l EXCEPT !.mutations = run.results,
              !.mutation_tool_available = run.tool_available,
              !.mutation_score = IF run.results # <<>>
                                 THEN compute_mutation_score(run.results) ELSE @,
              !.evaluated = IF run.results # <<>> THEN @ \cup {"mutation"} ELSE @]

\* verdict engine.py lines 81-82: a list of results, always scored
VerdictTakeMutationRun(l, run) ==
    [l EXCEPT !.mutations = run.results,
              !.mutation_score = compute_mutation_score(run.results)]

Step3Mutate ==
    /\ pc = "mutate"
    /\ IF ~cfg.skip_mutations /\ python_files(loc.files) # <<>>
       THEN \/ StageRaises("mutation", "static")
            \/ \E run \in MutationRuns :
                  /\ loc' = IF cfg.engine = "seraph"
                            THEN TakeMutationRun(loc, run)
                            ELSE VerdictTakeMutationRun(loc, run)
                  /\ stage' = [stage EXCEPT !["mutation"] = "ok"]
                  /\ Continue("static")
       ELSE UNCHANGED <<loc, stage>> /\ Continue("static")
    /\ UNCHANGED <<cfg, reportVars, configVars, libVars>>

(***************************************************************************)
(* Step 4: static analysis.  run_static_analysis returns the findings and  *)
(* which tools the project configures.                                     *)
(***************************************************************************)
StaticRuns ==
    { [findings |-> <<>>, tool_config |-> [ruff |-> TRUE, mypy |-> FALSE]],
      [findings |-> <<[severity |-> "high", analyzer |-> "mypy"]>>,
       tool_config |-> [ruff |-> TRUE, mypy |-> FALSE]],
      [findings |-> <<[severity |-> "high", analyzer |-> "mypy"]>>,
       tool_config |-> [ruff |-> TRUE, mypy |-> TRUE]],
      [findings |-> <<[severity |-> "low", analyzer |-> "ruff"],
                      [severity |-> "high", analyzer |-> "mypy"]>>,
       tool_config |-> [ruff |-> TRUE, mypy |-> FALSE]] }

\* every finding, whatever tool_config says
ScoresAll(run) == run.findings

\* engine.py line 128: findings of configured tools
scoreable(run) ==
    LET Configured(f) == run.tool_config[f.analyzer]
    IN  SelectSeq(run.findings, Configured)

Step4Static ==
    /\ pc = "static"
    /\ IF cfg.engine = "seraph"
       THEN IF python_files(loc.files) # <<>>
            THEN \/ StageRaises("static", "security")
                 \/ \E run \in StaticRuns :
                       /\ loc' = [loc EXCEPT
                            !.static_findings = run.findings,
                            !.tool_config = run.tool_config,
                            !.static_score = compute_static_score(scoreable(run),
                                 Len(python_files(loc.files)), ScoringDefaults)]
                       /\ stage' = [stage EXCEPT !["static"] = "ok"]
                       /\ Continue("security")
            ELSE UNCHANGED <<loc, stage>> /\ Continue("security")
       ELSE \/ StageRaises("static", "security")
            \/ \E run \in StaticRuns :
                  /\ python_files(loc.files) = <<>> => run.findings = <<>>
                  /\ loc' = [loc EXCEPT
                       !.static_findings = run.findings,
                       !.static_score = compute_static_score(run.findings,
                            Max(Len(python_files(loc.files)), 1), ScoringDefaults)]
                  /\ stage' = [stage EXCEPT !["static"] = "ok"]
                  /\ Continue("security")
    /\ UNCHANGED <<cfg, reportVars, configVars, libVars>>

(***************************************************************************)
(* Step 4.5: security.  core/security.py run_security_analysis: every      *)
(* enabled scanner reports whether its binary was found (the secrets       *)
(* detector also counts as available when every file is excluded); the     *)
(* findings left by the post-filter come from scanners that ran.           *)
(***************************************************************************)
SecurityFindingInput == [severity |-> "high", tier |-> 1]

run_security_analysis(enabled, found, any_finding) ==
    [findings |-> IF any_finding THEN <<SecurityFindingInput>> ELSE <<>>,
     tools_available |-> [reported |-> enabled, available |-> found]]

\* any(sec_result.tools_available.values())
AnyToolAvailable(ta) == ta.available # {}

\* engine.py lines 139-144
MarkSecurityIfEnabled(l, res) ==
    [l EXCEPT !.security_findings = res.findings,
              !.tools_available = res.tools_available,
              !.security_score = compute_security_score(res.findings,
                     Len(python_files(l.files)), ScoringDefaults),
              !.evaluated = IF res.tools_available.reported # {}
                            THEN @ \cup {"security"} ELSE @]

TakeSecurityResult(l, res) ==
    LET counted == res.findings # <<>> \/ AnyToolAvailable(res.tools_available)
    IN  [l EXCEPT !.security_findings = res.findings,
                  !.tools_available = res.tools_available,
                  !.security_score =
                      IF counted
                      THEN compute_security_score(res.findings,
                               Len(python_files(l.files)), ScoringDefaults)
                      ELSE @,
                  !.evaluated = IF counted THEN @ \cup {"security"} ELSE @]

Step45Security ==
    /\ pc = "security"
    /\ IF cfg.engine = "seraph" /\ python_files(loc.files) # <<>>
       THEN \/ StageRaises("security", "sentinel")
            \/ \E found \in SUBSET cfg.scanners, any_finding \in BOOLEAN :
                  /\ any_finding => found # {}
                  /\ loc' = TakeSecurityResult(loc,
                               run_security_analysis(cfg.scanners, found, any_finding))
                  /\ stage' = [stage EXCEPT !["security"] = "ok"]
                  /\ Continue("sentinel")
       ELSE UNCHANGED <<loc, stage>> /\ Continue("sentinel")
    /\ UNCHANGED <<cfg, reportVars, configVars, libVars>>

(***************************************************************************)
(* Step 5: the knowledge oracle, then the two scores fed by it.            *)
(***************************************************************************)
SignalInputs ==
    { NoSignals,
      [available |-> TRUE, pitfall_matches |-> <<>>, hot_files |-> <<>>,
       missing_co_changes |-> <<>>],
      [available |-> TRUE, pitfall_matches |-> <<"p1">>,
       hot_files |-> <<[path |-> "src/foo.py", churn_score |-> 50]>>,
       missing_co_changes |-> <<"src/bar.py">>] }

WithSentinelScores(l, signals) ==
    [l EXCEPT !.sentinel_signals = signals,
              !.sentinel_risk_score = compute_risk_score(signals, ScoringDefaults),
              !.co_change_score = compute_co_change_score(signals, l.files)]

\* SentinelBridge(repo): no database file or no KnowledgeStore ("none"), a
\* store that opened ("ok"), or a store whose open() raised ("open_raises":
\* _store is assigned before open() is called)
BridgeOpenings == {"none", "ok", "open_raises"}

SentinelBridge(opening) ==
    IF opening = "none" THEN NoHandle
    ELSE [_store |-> TRUE, _available |-> opening = "ok", handle |-> "open"]

CloseLeavesStore(b) == b

\* SentinelBridge.close()
bridge_close(b) ==
    IF b._store
    THEN [_store |-> FALSE, _available |-> FALSE, handle |-> "closed"]
    ELSE b

\* `with SentinelBridge(repo) as bridge` of SeraphEngine: leaving the block,
\* normally or by an exception, closes the bridge
SentinelBridgeExit(b) == bridge_close(b)

\* the bridge when the stage is left: VerdictEngine closes it in `finally`
AfterKnowledgeStage(engine, b) ==
    IF engine = "seraph" THEN SentinelBridgeExit(b) ELSE bridge_close(b)

\* get_risk_signals reports available exactly when the bridge holds a store
OpeningsFor(signals) == IF signals.available THEN {"ok", "open_raises"} ELSE {"none"}

Step5Sentinel ==
    /\ pc = "sentinel"
    /\ \/ /\ stage' = [stage EXCEPT !["sentinel"] = "raised"]
          /\ \E opening \in BridgeOpenings :
               LET b == AfterKnowledgeStage(cfg.engine, SentinelBridge(opening))
               IN  IF cfg.engine = "seraph"
                   THEN /\ loc' = [WithSentinelScores(loc, NoSignals) EXCEPT !.bridge = b]
                        /\ Continue("report")
                   ELSE /\ loc' = [loc EXCEPT !.bridge = b]
                        /\ Propagate
       \/ \E signals \in SignalInputs :
             \E opening \in OpeningsFor(signals) :
                /\ loc' = [WithSentinelScores(loc, signals) EXCEPT
                              !.bridge = AfterKnowledgeStage(cfg.engine,
                                                             SentinelBridge(opening))]
                /\ stage' = [stage EXCEPT !["sentinel"] = "ok"]
                /\ Continue("report")
    /\ UNCHANGED <<cfg, reportVars, configVars, libVars>>

(***************************************************************************)
(* Steps 6 and 7: build the report, persist it, return it.                 *)
(***************************************************************************)
Step67ReportPersist ==
    /\ pc = "report"
    /\ SaveAndReturn(build_report(IF cfg.engine = "seraph"
                                  THEN SeraphReportArgs(loc)
                                  ELSE VerdictReportArgs(loc)))
    /\ UNCHANGED <<cfg, loc, stage, reportVars, configVars, libVars>>

(***************************************************************************)
(* mutate_only.                                                            *)
(***************************************************************************)
MutateOnlyDiff ==
    /\ pc = "idle" /\ cfg.op = "mutate_only"
    /\ \E files \in DiffInputs : loc' = [loc EXCEPT !.files = files]
    /\ Continue("mo_mutate")
    /\ UNCHANGED <<cfg, stage, reportVars, configVars, libVars>>

MutateOnlyRun ==
    /\ pc = "mo_mutate"
    /\ IF python_files(loc.files) # <<>>
       THEN \/ /\ stage' = [stage EXCEPT !["mutation"] = "raised"]
               /\ UNCHANGED loc
               /\ Propagate
            \/ \E run \in MutationRuns :
                  /\ loc' = IF cfg.engine = "seraph"
                            THEN TakeMutationRun(loc, run)
                            ELSE VerdictTakeMutationRun(loc, run)
                  /\ stage' = [stage EXCEPT !["mutation"] = "ok"]
                  /\ Continue("mo_report")
       ELSE UNCHANGED <<loc, stage>> /\ Continue("mo_report")
    /\ UNCHANGED <<cfg, reportVars, configVars, libVars>>

MutateOnlyReportPersist ==
    /\ pc = "mo_report"
    /\ SaveAndReturn(build_report(
          IF cfg.engine = "seraph"
          THEN [SeraphReportArgs(loc) EXCEPT !.with_security = FALSE]
          ELSE VerdictReportArgs(loc)))
    /\ UNCHANGED <<cfg, loc, stage, reportVars, configVars, libVars>>

(***************************************************************************)
(* Specifications.                                                         *)
(***************************************************************************)
EngineIdle ==
    /\ pc = "idle"
    /\ loc = InitLoc
    /\ stage = [n \in StageNames |-> "not_run"]
    /\ report = <<>>
    /\ outcome = "running"
    /\ assessments = <<>>
    /\ saves = 0

ReportIdle == rargs = <<>> /\ rreport = <<>> /\ rshadow = <<>>

ConfigIdle == toml = {} /\ env = {} /\ scoring = <<>>

\* The engines: one assess or mutate_only call on a fresh store.
Init ==
    /\ cfg \in EngineConfigs
    /\ EngineIdle /\ ReportIdle /\ ConfigIdle /\ LibIdle

Next ==
    \/ Step1Diff
    \/ Step2Baseline
    \/ Step3Mutate
    \/ Step4Static
    \/ Step45Security
    \/ Step5Sentinel
    \/ Step67ReportPersist
    \/ MutateOnlyDiff
    \/ MutateOnlyRun
    \/ MutateOnlyReportPersist

Spec == Init /\ [][Next]_vars

\* Direct build_report calls.
NoEngine == [engine |-> "none", op |-> "none", skip_baseline |-> FALSE,
             skip_mutations |-> FALSE, scanners |-> {}]

ReportInit ==
    /\ cfg = NoEngine /\ EngineIdle /\ ConfigIdle /\ LibIdle
    /\ rargs \in ReportCalls
    /\ rreport = <<>> /\ rshadow = <<>>

ReportNext == BuildReportCall

SpecReport == ReportInit /\ [][ReportNext]_vars

(***************************************************************************)
(* Reading a report.                                                       *)
(***************************************************************************)
DimNames(r) == {r.dimensions[i].name : i \in 1..Len(r.dimensions)}

Dim(r, name) ==
    r.dimensions[CHOOSE i \in 1..Len(r.dimensions) : r.dimensions[i].name = name]

\* the dimensions a stage feeds
FedBy(s) ==
    CASE s = "baseline" -> {"Test Baseline"}
      [] s = "mutation" -> {"Mutation Score"}
      [] s = "static" -> {"Static Cleanliness"}
      [] s = "security" -> {"Security"}
      [] s = "sentinel" -> {"Sentinel Risk", "Co-change Coverage"}

RowsWithId(id) == {i \in 1..Len(assessments) : assessments[i].id = id}

SeraphAssessDone == cfg.engine = "seraph" /\ cfg.op = "assess" /\ pc = "done"

\* the weighted average of the evaluated dimensions other than `name`
OverallWithout(r, name) ==
    LET E == {i \in 1..Len(r.dimensions) :
                 r.dimensions[i].evaluated /\ r.dimensions[i].name # name}
        RECURSIVE W(_), N(_)
        W(S) == IF S = {} THEN 0
                ELSE LET i == CHOOSE x \in S : TRUE
                     IN  r.dimensions[i].weight + W(S \ {i})
        N(S) == IF S = {} THEN 0
                ELSE LET i == CHOOSE x \in S : TRUE
                     IN  r.dimensions[i].raw_score * r.dimensions[i].weight + N(S \ {i})
    IN  IF E = {} \/ W(E) = 0 THEN 10000 ELSE round1(N(E), W(E))

\* the findings of l whose analyzer tool_config reports as configured
ConfiguredFindings(l) ==
    LET RECURSIVE keep(_)
        keep(q) == IF q = <<>> THEN <<>>
                   ELSE (IF l.tool_config[Head(q).analyzer] THEN <<Head(q)>> ELSE <<>>)
                        \o keep(Tail(q))
    IN  keep(l.static_findings)

\* C27: in SeraphEngine.assess, the Static Cleanliness score is the score of
\* the findings whose analyzer tool_config reports as configured, so the
\* findings of an analyzer that is not configured do not affect it, while
\* the report's static_findings holds every finding and static_issues counts
\* every finding.
C27_UnconfiguredFindingsNotScored ==
    (cfg.engine = "seraph" /\ cfg.op = "assess" /\ report # <<>>
        /\ stage["static"] = "ok") =>
        LET r == report[1] IN
        /\ Dim(r, "Static Cleanliness").raw_score =
              compute_static_score(ConfiguredFindings(loc),
                                   Len(python_files(loc.files)), ScoringDefaults)
        /\ r.static_findings = loc.static_findings
        /\ r.static_issues = Len(loc.static_findings)

\* a report with one ruff finding and one finding of the unconfigured mypy:
\* both are listed, the score is that of the ruff finding alone
C27_Witness ==
    /\ cfg.engine = "seraph" /\ cfg.op = "assess" /\ report # <<>>
    /\ stage["static"] = "ok"
    /\ ~loc.tool_config.mypy
    /\ report[1].static_issues = 2
    /\ Len(ConfiguredFindings(loc)) = 1
    /\ Dim(report[1], "Static Cleanliness").raw_score < 10000
    /\ Dim(report[1], "Static Cleanliness").raw_score >
          compute_static_score(loc.static_findings, Len(python_files(loc.files)),
                               ScoringDefaults)

C1_FailureIsolation ==
    (SeraphAssessDone /\ loc.files # <<>>) =>
        \A s \in StageNames :
            stage[s] = "raised" =>
                /\ report # <<>>
                /\ outcome = "returned" => RowsWithId(report[1].id) # {}
                /\ \A name \in FedBy(s) :
                      /\ ~Dim(report[1], name).evaluated
                      /\ Dim(report[1], name).raw_score = 10000

(***************************************************************************)
(* C2.  Every assess or mutate_only call that returns a report has called  *)
(* save_assessment exactly once, so exactly one assessments row carries    *)
(* the report's id; when save_assessment raises, the call raises.          *)
(* VerdictEngine.assess returns the empty-diff report without saving it,   *)
(* so this statement is violated.                                          *)
(***************************************************************************)
C2_PersistedExactlyOnce ==
    pc = "done" =>
        /\ outcome = "returned" =>
              /\ report # <<>>
              /\ saves = 1
              /\ Cardinality(RowsWithId(report[1].id)) = 1
        /\ outcome = "raised" => assessments = <<>>

(***************************************************************************)
(* C3.  On an empty diff SeraphEngine.assess runs no analyzer stage and    *)
(* returns files_changed = [], overall 100.0, grade A, no gaps, and every  *)
(* dimension evaluated=false.                                              *)
(* _empty_report passes no evaluated set, so build_report marks every      *)
(* dimension evaluated: this statement is violated.                        *)
(***************************************************************************)
C3_EmptyDiffReport ==
    (SeraphAssessDone /\ loc.files = <<>> /\ outcome = "returned") =>
        /\ \A s \in StageNames : stage[s] = "not_run"
        /\ report[1].files_changed = <<>>
        /\ report[1].overall_score = 10000
        /\ report[1].overall_grade = "A"
        /\ report[1].gaps = <<>>
        /\ \A i \in 1..Len(report[1].dimensions) : ~report[1].dimensions[i].evaluated

(***************************************************************************)
(* C7.  In SeraphEngine.assess and mutate_only the Mutation dimension is   *)
(* evaluated=true iff the mutation stage ran, did not raise and returned   *)
(* at least one result; with zero results it is not evaluated and its      *)
(* default 100 does not enter the overall score.                           *)
(* Violated on the empty diff of assess, where the stage does not run and  *)
(* the report (see C3) still marks the dimension evaluated.                *)
(***************************************************************************)
C7_MutationEvaluatedIff ==
    (cfg.engine = "seraph" /\ pc = "done" /\ report # <<>>) =>
        /\ Dim(report[1], "Mutation Score").evaluated
              <=> (stage["mutation"] = "ok" /\ loc.mutations # <<>>)
        /\ (stage["mutation"] = "ok" /\ loc.mutations = <<>>) =>
              /\ ~Dim(report[1], "Mutation Score").evaluated
              /\ report[1].overall_score = OverallWithout(report[1], "Mutation Score")

(***************************************************************************)
(* C8.  Non-empty diff without a .py file: SeraphEngine.assess runs none   *)
(* of the baseline, mutation and static stages and marks Mutation,         *)
(* Baseline and Static evaluated=false, Sentinel Risk and Co-change        *)
(* Coverage evaluated=true.                                                *)
(* "static" is in the evaluated set unconditionally: violated.             *)
(***************************************************************************)
C8_NonPythonDiff ==
    (SeraphAssessDone /\ loc.files # <<>> /\ python_files(loc.files) = <<>>
       /\ report # <<>>) =>
        /\ \A s \in {"baseline", "mutation", "static"} : stage[s] = "not_run"
        /\ ~Dim(report[1], "Mutation Score").evaluated
        /\ ~Dim(report[1], "Test Baseline").evaluated
        /\ ~Dim(report[1], "Static Cleanliness").evaluated
        /\ Dim(report[1], "Sentinel Risk").evaluated
        /\ Dim(report[1], "Co-change Coverage").evaluated

MixedScores(a) ==
    /\ a.mutation_score = 5000 /\ a.static_score = 8000
    /\ a.baseline_score = 10000 /\ a.sentinel_risk_score = 7000
    /\ a.co_change_score = 6000
    /\ EvaluatedOf(a) = FiveDims
    /\ a.scoring = ScoringDefaults

EvaluatedWeight(r) ==
    LET RECURSIVE W(_)
        W(i) == IF i = 0 THEN 0
                ELSE (IF r.dimensions[i].evaluated THEN r.dimensions[i].weight ELSE 0)
                     + W(i - 1)
    IN  W(Len(r.dimensions))

C4_OverallIsWeightedAverage ==
    rreport # <<>> =>
        LET r == rreport[1]
            a == rargs[1]
        IN  /\ r.overall_score = OverallWithout(r, "none")
            /\ EvaluatedWeight(r) = 0 => r.overall_score = 10000
            /\ (EvaluatedOf(a) = {"mutation"} /\ a.mutation_score = 5000
                  /\ a.scoring.mutation_weight > 0) => r.overall_score = 5000
            /\ MixedScores(a) => r.overall_score = 6900

C4_Witness ==
    /\ rreport # <<>>
    /\ MixedScores(rargs[1])
    /\ rreport[1].overall_score = 6900

(***************************************************************************)
(* C5.  For every report built by build_report, overall_grade is the       *)
(* threshold mapping applied to the report's stored one-decimal            *)
(* overall_score.                                                          *)
(* build_report grades the unrounded weighted average and stores the       *)
(* rounded one, so the two disagree when rounding crosses a threshold:     *)
(* this statement is violated.                                             *)
(***************************************************************************)
C5_GradeMatchesStoredScore ==
    rreport # <<>> =>
        rreport[1].overall_grade =
            from_score(rreport[1].overall_score, 1, grade_thresholds(rargs[1].scoring))

(***************************************************************************)
(* C6.  A dimension with evaluated=false is inert: weighted_score 0,       *)
(* details "Not evaluated", never in gaps; and two build_report calls that *)
(* differ only in the raw score of dimensions that are not evaluated give  *)
(* the same overall_score, overall_grade and gaps.                         *)
(***************************************************************************)
GapNames(r) == {r.gaps[i].name : i \in 1..Len(r.gaps)}

C6_NotEvaluatedIsInert ==
    rreport # <<>> =>
        LET r == rreport[1]
            sh == rshadow[1]
        IN  /\ \A i \in 1..Len(r.dimensions) :
                  ~r.dimensions[i].evaluated =>
                      /\ r.dimensions[i].weighted_score = 0
                      /\ r.dimensions[i].details = "Not evaluated"
                      /\ r.dimensions[i].name \notin GapNames(r)
                      /\ sh.dimensions[i].name \notin GapNames(sh)
            /\ r.overall_score = sh.overall_score
            /\ r.overall_grade = sh.overall_grade
            /\ r.gaps = sh.gaps

\* a failing raw score on a dimension that is not evaluated, changed between
\* the two calls, next to an evaluated dimension that is a gap
C6_Witness ==
    /\ rreport # <<>>
    /\ ~Dim(rreport[1], "Test Baseline").evaluated
    /\ Dim(rreport[1], "Test Baseline").raw_score = 0
    /\ Dim(rshadow[1], "Test Baseline").raw_score = 9500
    /\ Dim(rreport[1], "Mutation Score").evaluated
    /\ "Mutation Score" \in GapNames(rreport[1])

(***************************************************************************)
(* config.py: SeraphConfig.load / _build_section / _coerce for the         *)
(* [scoring] section.  An environment value is a string; _coerce parses    *)
(* it by the field's declared type.                                        *)
(***************************************************************************)
Upper ==
    [mutation_weight |-> "MUTATION_WEIGHT", static_weight |-> "STATIC_WEIGHT",
     baseline_weight |-> "BASELINE_WEIGHT",
     sentinel_risk_weight |-> "SENTINEL_RISK_WEIGHT",
     co_change_weight |-> "CO_CHANGE_WEIGHT",
     grade_a |-> "GRADE_A", grade_b |-> "GRADE_B", grade_c |-> "GRADE_C",
     grade_d |-> "GRADE_D",
     baseline_deduction_per_flaky |-> "BASELINE_DEDUCTION_PER_FLAKY",
     risk_deduction_per_pitfall |-> "RISK_DEDUCTION_PER_PITFALL",
     risk_deduction_per_missing_co_change |-> "RISK_DEDUCTION_PER_MISSING_CO_CHANGE",
     risk_hot_file_churn_divisor |-> "RISK_HOT_FILE_CHURN_DIVISOR",
     risk_hot_file_max_deduction |-> "RISK_HOT_FILE_MAX_DEDUCTION",
     static_issue_scale_factor |-> "STATIC_ISSUE_SCALE_FACTOR",
     severity_critical |-> "SEVERITY_CRITICAL", severity_high |-> "SEVERITY_HIGH",
     severity_medium |-> "SEVERITY_MEDIUM", severity_low |-> "SEVERITY_LOW",
     severity_info |-> "SEVERITY_INFO"]

FieldType(f) ==
    IF f \in {"severity_critical", "severity_high", "severity_medium",
              "severity_low", "severity_info"} THEN "int" ELSE "float"

\* float(value) for the weight strings of the model, in ten-thousandths
ParseFloat(value) ==
    CASE value = "0.25" -> 2500
      [] value = "0.4" -> 4000
      [] value = "0" -> 0
      [] value = "1" -> 10000

ParseInt(value) ==
    CASE value = "0" -> 0
      [] value = "1" -> 1

_coerce(value, type_hint) ==
    IF type_hint = "bool" THEN value \in {"true", "1", "yes"}
    ELSE IF type_hint = "int" THEN ParseInt(value)
    ELSE IF type_hint = "float" THEN ParseFloat(value)
    ELSE value

Has(tbl, key) == \E p \in tbl : p[1] = key

Get(tbl, key) == (CHOOSE p \in tbl : p[1] = key)[2]

EnvKey(env_prefix, name) == env_prefix \o "_" \o Upper[name]

\* _build_section with the config file taking precedence over the environment
BuildSectionTomlFirst(defaults, toml_dict, env_prefix, environ) ==
    [f \in DOMAIN defaults |->
        IF Has(toml_dict, f) THEN Get(toml_dict, f)
        ELSE IF Has(environ, EnvKey(env_prefix, f))
        THEN _coerce(Get(environ, EnvKey(env_prefix, f)), FieldType(f))
        ELSE defaults[f]]

\* _build_section(ScoringConfig, toml_dict, env_prefix)
_build_section(defaults, toml_dict, env_prefix, environ) ==
    [f \in DOMAIN defaults |->
        IF Has(environ, EnvKey(env_prefix, f))
        THEN _coerce(Get(environ, EnvKey(env_prefix, f)), FieldType(f))
        ELSE IF Has(toml_dict, f) THEN Get(toml_dict, f)
        ELSE defaults[f]]

Functional(tbl) == \A p, q \in tbl : p[1] = q[1] => p = q

TomlWeights == {5000, 1000}
EnvWeights == {"0.25"}

TomlInputs == {t \in SUBSET (WeightFields \X TomlWeights) : Functional(t)}

EnvInputs ==
    SUBSET { <<EnvKey("SERAPH_SCORING", f), v>> : f \in WeightFields, v \in EnvWeights }

\* SeraphConfig.load(repo).scoring, or ScoringConfig() when nothing overrides
LoadConfig ==
    /\ scoring = <<>>
    /\ \E t \in TomlInputs, e \in EnvInputs :
          /\ toml' = t
          /\ env' = e
          /\ scoring' = <<_build_section(ScoringDefaults, t, "SERAPH_SCORING", e)>>
    /\ UNCHANGED <<engineVars, reportVars, libVars>>

ConfigInit == cfg = NoEngine /\ EngineIdle /\ ReportIdle /\ ConfigIdle /\ LibIdle

ConfigNext == LoadConfig

SpecConfig == ConfigInit /\ [][ConfigNext]_vars

WeightSum(sc) ==
    LET w == dimension_weights(sc)
    IN  w.mutation + w.static + w.baseline + w.sentinel_risk + w.co_change

OverridesWeight(f) == Has(toml, f) \/ Has(env, EnvKey("SERAPH_SCORING", f))

FlakyCounts == {0, 1, 10, 12}

FlakyTests(k) == [i \in 1..k |-> "t"]

MutationInputs ==
    { <<>>, <<[status |-> "killed"]>>, <<[status |-> "survived"]>>,
      <<[status |-> "killed"], [status |-> "survived"], [status |-> "survived"]>> }

FindingInputs ==
    { [findings |-> <<>>, file_count |-> 1],
      [findings |-> <<[severity |-> "low", analyzer |-> "ruff"]>>, file_count |-> 3],
      [findings |-> <<[severity |-> "medium", analyzer |-> "ruff"],
                      [severity |-> "info", analyzer |-> "ruff"]>>, file_count |-> 1],
      [findings |-> <<[severity |-> "critical", analyzer |-> "mypy"],
                      [severity |-> "critical", analyzer |-> "mypy"]>>, file_count |-> 1],
      [findings |-> <<[severity |-> "high", analyzer |-> "mypy"]>>, file_count |-> 0] }

Pitfalls(k) == [i \in 1..k |-> "p"]

RiskInputs ==
    { NoSignals,
      [available |-> TRUE, pitfall_matches |-> <<>>, hot_files |-> <<>>,
       missing_co_changes |-> <<>>],
      [available |-> TRUE, pitfall_matches |-> Pitfalls(1),
       hot_files |-> <<[path |-> "src/foo.py", churn_score |-> 7],
                       [path |-> "src/bar.py", churn_score |-> 1000]>>,
       missing_co_changes |-> <<"src/baz.py", "src/qux.py">>],
      [available |-> TRUE, pitfall_matches |-> Pitfalls(21),
       hot_files |-> <<[path |-> "src/foo.py", churn_score |-> 0]>>,
       missing_co_changes |-> <<"src/baz.py">>] }

ChangedFileInputs == { <<>>, <<"src/foo.py">>, <<"src/foo.py", "README.md">> }

\* weights of exactly 0 and 1, of two decimals, and of four decimals
WeightInputs ==
    { ScoringDefaults,
      [ScoringDefaults EXCEPT !.mutation_weight = 10000, !.static_weight = 0],
      [ScoringDefaults EXCEPT !.mutation_weight = 3337, !.static_weight = 6,
                              !.baseline_weight = 1250] }

ScoreEvaluatedInputs == { <<>>, <<{}>>, <<{"mutation", "baseline", "sentinel_risk"}>> }

ScoreCalls ==
    [flaky : FlakyCounts, mutations : MutationInputs, static : FindingInputs,
     signals : RiskInputs, changed_files : ChangedFileInputs,
     scoring : WeightInputs, evaluated_dimensions : ScoreEvaluatedInputs]

\* the build_report arguments the engine derives from the analyzer outputs
ScoredArgs(i) ==
    LET baseline == [flaky_tests |-> FlakyTests(i.flaky), run_count |-> 3]
    IN  [id |-> 0, files_changed |-> i.changed_files,
         mutation_score |-> compute_mutation_score(i.mutations),
         static_score |-> compute_static_score(i.static.findings, i.static.file_count,
                                               i.scoring),
         baseline_score |-> compute_baseline_score(baseline, i.scoring),
         sentinel_risk_score |-> compute_risk_score(i.signals, i.scoring),
         co_change_score |-> compute_co_change_score(i.signals, i.changed_files),
         mutations |-> i.mutations, static_findings |-> i.static.findings,
         baseline |-> <<baseline>>, sentinel_signals |-> i.signals,
         evaluated_dimensions |-> i.evaluated_dimensions, scoring |-> i.scoring,
         with_security |-> FALSE, security_score |-> 10000,
         security_findings |-> <<>>]

ScoreAndReport ==
    /\ sin # <<>>
    /\ sout = <<>>
    /\ sout' = <<build_report(ScoredArgs(sin[1]))>>
    /\ UNCHANGED <<sin, notScore>>

ScoreInit ==
    /\ cfg = NoEngine /\ EngineIdle /\ ReportIdle /\ ConfigIdle
    /\ sin \in {<<i>> : i \in ScoreCalls}
    /\ sout = <<>>
    /\ BaselineIdle /\ StoreIdle /\ MigrationIdle /\ DiffIdle /\ BridgeIdle /\ ToolIdle

ScoreNext == ScoreAndReport

SpecScores == ScoreInit /\ [][ScoreNext]_vars

(***************************************************************************)
(* C11.  For every dimension of every report built by build_report from    *)
(* the outputs of the compute_*_score functions: 0 <= raw_score <= 100 and *)
(* 0 <= weighted_score <= 100 x weight, for all inputs and any dimension   *)
(* weight in [0, 1].                                                       *)
(* _score_dimension rounds raw_score x weight to one decimal, so with a    *)
(* weight of more than three decimals the weighted score can lie above     *)
(* 100 x weight: this statement is violated.                               *)
(***************************************************************************)
C11_ScoresInRange ==
    sout # <<>> =>
        \A i \in 1..Len(sout[1].dimensions) :
            LET d == sout[1].dimensions[i]
            IN  /\ 0 <= d.raw_score /\ d.raw_score <= 10000
                /\ 0 <= d.weighted_score
                \* 100 x weight in hundredths of a point is weight in ten-thousandths
                /\ d.weighted_score <= d.weight

(***************************************************************************)
(* core/baseline.py: run_baseline.  _run_tests_once returns the set of     *)
(* failed test ids of one run, or {"__timeout__"} when the run timed out;  *)
(* the sets of the run_count runs are the input.                           *)
(***************************************************************************)
MaxRuns == 3

\* the test ids in sorted() order
TestOrder == <<"__timeout__", "tests/test_a.py::test_a", "tests/test_b.py::test_b",
               "tests/test_c.py::test_c">>

RealTests == {TestOrder[i] : i \in 2..Len(TestOrder)}

\* _run_tests_once
RunOutcomes == (SUBSET RealTests) \cup { {"__timeout__"} }

RECURSIVE FailureSeqs(_)
FailureSeqs(n) ==
    IF n = 0 THEN { <<>> }
    ELSE { Append(q, o) : q \in FailureSeqs(n - 1), o \in RunOutcomes }

BaselineCalls ==
    UNION { { [run_count |-> n, all_failures |-> q] : q \in FailureSeqs(n) } :
            n \in 0..MaxRuns }

\* nearest integer to n/d, a tie going to the even one (round(x, 4) on
\* ten-thousandths)
round_div(n, d) ==
    LET f == n \div d
        r == n % d
    IN  IF 2 * r < d THEN f
        ELSE IF 2 * r > d THEN f + 1
        ELSE IF f % 2 = 0 THEN f ELSE f + 1

\* baseline.py line 36
FailedInSomeRun(fail_count, run_count) == 0 < fail_count

is_flaky(fail_count, run_count) == 0 < fail_count /\ fail_count < run_count

run_baseline(run_count, all_failures) ==
    LET all_test_ids == UNION {all_failures[i] : i \in 1..Len(all_failures)}
        fail_count(test_id) ==
            Cardinality({i \in 1..Len(all_failures) : test_id \in all_failures[i]})
        Flaky(test_id) ==
            test_id \in all_test_ids /\ is_flaky(fail_count(test_id), run_count)
        total_results ==
            SumSeq([i \in 1..Len(all_failures) |-> Cardinality(all_failures[i])])
        k == Cardinality(all_test_ids)
    IN  [run_count |-> run_count,
         flaky_tests |-> SelectSeq(TestOrder, Flaky),
         \* in ten-thousandths
         pass_rate |-> IF all_test_ids # {}
                       THEN round_div(Max(0, run_count * k - total_results) * 10000,
                                      run_count * k)
                       ELSE 10000]

RunBaseline ==
    /\ brun # <<>>
    /\ bres = <<>>
    /\ bres' = <<run_baseline(brun[1].run_count, brun[1].all_failures)>>
    /\ UNCHANGED <<brun, notBaseline>>

BaselineInit ==
    /\ cfg = NoEngine /\ EngineIdle /\ ReportIdle /\ ConfigIdle /\ ScoreIdle /\ StoreIdle
    /\ MigrationIdle /\ DiffIdle /\ BridgeIdle /\ ToolIdle
    /\ brun \in {<<b>> : b \in BaselineCalls}
    /\ bres = <<>>

\* compute_baseline_score on the result: bres becomes <<r, score>>
ScoreBaseline ==
    /\ Len(bres) = 1
    /\ bres' = Append(bres, compute_baseline_score(bres[1], ScoringDefaults))
    /\ UNCHANGED <<brun, notBaseline>>

BaselineNext == RunBaseline \/ ScoreBaseline

SpecBaseline == BaselineInit /\ [][BaselineNext]_vars

\* number of runs in which a test failed
FailuresOf(test_id) ==
    Cardinality({i \in 1..Len(brun[1].all_failures) : test_id \in brun[1].all_failures[i]})

Listed(q) == {q[i] : i \in 1..Len(q)}

(***************************************************************************)
(* C12.  For run_baseline with run_count = N and any N per-run failure     *)
(* sets, a test id is in flaky_tests iff it failed in more than 0 and      *)
(* fewer than N runs; a test that fails in all N runs is not flaky.        *)
(***************************************************************************)
C12_FlakyIffFailedInSomeNotAll ==
    bres # <<>> =>
        LET N == brun[1].run_count
            flaky == bres[1].flaky_tests
        IN  /\ \A t \in Listed(TestOrder) :
                  t \in Listed(flaky) <=> (0 < FailuresOf(t) /\ FailuresOf(t) < N)
            /\ \A t \in Listed(TestOrder) : FailuresOf(t) = N => t \notin Listed(flaky)
            /\ Cardinality(Listed(flaky)) = Len(flaky)

\* the runs of the call that timed out
TimedOutRuns ==
    {i \in 1..Len(brun[1].all_failures) : "__timeout__" \in brun[1].all_failures[i]}

\* C28: in run_baseline with N runs a timed-out run's failure set is exactly
\* {"__timeout__"}; when at least one but not all runs time out,
\* __timeout__ is in flaky_tests and so is every test that failed in all the
\* runs that did not time out, and the baseline score is 100 less the
\* per-flaky deduction for each listed test.
C28_TimeoutMakesFailuresFlaky ==
    /\ brun # <<>> => \A i \in TimedOutRuns : brun[1].all_failures[i] = {"__timeout__"}
    /\ (bres # <<>> /\ TimedOutRuns # {}
           /\ Cardinality(TimedOutRuns) < brun[1].run_count) =>
           LET flaky == bres[1].flaky_tests
               others == (1..brun[1].run_count) \ TimedOutRuns
           IN  /\ "__timeout__" \in Listed(flaky)
               /\ \A t \in RealTests :
                     (\A i \in others : t \in brun[1].all_failures[i])
                         => t \in Listed(flaky)
               /\ Len(bres) = 2 =>
                     bres[2] = 10000 - Len(flaky) * ScoringDefaults.baseline_deduction_per_flaky

\* three runs: the first timed out, test_a failed in the other two, so
\* __timeout__ and test_a are flaky and the score is 80.0
C28_Witness ==
    /\ Len(bres) = 2
    /\ brun[1].run_count = 3
    /\ TimedOutRuns = {1}
    /\ brun[1].all_failures[2] = {"tests/test_a.py::test_a"}
    /\ brun[1].all_failures[3] = {"tests/test_a.py::test_a"}
    /\ bres[1].flaky_tests = <<"__timeout__", "tests/test_a.py::test_a">>
    /\ bres[2] = 8000

\* tests/core/test_baseline.py: test_b fails in runs 1 and 3, test_a in all three
C12_Witness ==
    /\ bres # <<>>
    /\ brun[1].run_count = 3
    /\ FailuresOf("tests/test_a.py::test_a") = 3
    /\ FailuresOf("tests/test_b.py::test_b") = 2
    /\ bres[1].flaky_tests = <<"tests/test_b.py::test_b">>

\* ---------------------------------------------------------------------------
\* The store: one SQLite file, one open connection, the feedback commands
\* ---------------------------------------------------------------------------

AssessmentIds == {"a1", "a2"}
MutationIds == {"m1", "m2"}
BaselineIds == {"b1"}
FeedbackIds == {"f1", "f2"}

\* created_at values, and the values of datetime('now') seen by prune, as day numbers
Days == {1, 2}
NowInputs == {2, 3}
RetentionInputs == {0, 1}

\* file names as sequences of characters; the last two hold the characters
\* json.dumps has to escape
FileNames == [a |-> <<"a", ".", "p", "y">>,
              q |-> <<"b", "\"", "c">>,
              s |-> <<"d", "\\", ",", " ", "e">>]

Concat(seqs) ==
    LET RECURSIVE cat(_)
        cat(i) == IF i > Len(seqs) THEN <<>> ELSE seqs[i] \o cat(i + 1)
    IN  cat(1)

NoEscape(c) == <<c>>

\* json.dumps of a str: quotes and backslashes are escaped
EscapeChar(c) == IF c = "\"" \/ c = "\\" THEN <<"\\", c>> ELSE <<c>>

json_dumps_str(str) ==
    <<"\"">> \o Concat([i \in 1..Len(str) |-> EscapeChar(str[i])]) \o <<"\"">>

\* json.dumps of a list of str: items separated by ", "
json_dumps(list) ==
    <<"[">>
    \o Concat([i \in 1..Len(list) |->
                 (IF i = 1 THEN <<>> ELSE <<",", " ">>) \o json_dumps_str(list[i])])
    \o <<"]">>

\* json.loads of the text of a list of str
json_loads(text) ==
    LET RECURSIVE scan(_, _, _, _)
        scan(i, in_string, cur, acc) ==
            IF i > Len(text) THEN acc
            ELSE IF ~in_string
                 THEN IF text[i] = "\""
                      THEN scan(i + 1, TRUE, <<>>, acc)
                      ELSE scan(i + 1, FALSE, <<>>, acc)
                 ELSE IF text[i] = "\\" /\ i < Len(text)
                      THEN scan(i + 2, TRUE, Append(cur, text[i + 1]), acc)
                      ELSE IF text[i] = "\""
                           THEN scan(i + 1, FALSE, <<>>, Append(acc, cur))
                           ELSE scan(i + 1, TRUE, Append(cur, text[i]), acc)
    IN  scan(1, FALSE, <<>>, <<>>)

\* the reports handed to save_assessment: the scalar fields differ by id
StoreReport(id, day, mutation_ids, baseline) ==
    [id |-> id,
     repo_path |-> "/repo",
     ref_before |-> IF id = "a1" THEN <<>> ELSE <<"HEAD~1">>,
     ref_after |-> IF id = "a1" THEN <<>> ELSE <<"HEAD">>,
     files_changed |-> IF id = "a1" THEN <<FileNames.q, FileNames.a, FileNames.s>>
                       ELSE <<>>,
     mutation_score |-> IF id = "a1" THEN 8750 ELSE 0,
     static_issues |-> IF id = "a1" THEN 0 ELSE 3,
     sentinel_warnings |-> IF id = "a1" THEN 2 ELSE 0,
     baseline_flaky |-> IF id = "a1" THEN 0 ELSE 1,
     overall_grade |-> IF id = "a1" THEN "B" ELSE "F",
     mutations |-> [i \in 1..Len(mutation_ids) |-> [id |-> mutation_ids[i]]],
     baseline |-> baseline,
     created_at |-> day]

MutationIdLists == {<<"m1">>, <<"m2">>, <<"m1", "m2">>}

\* a report's baseline, if it has one, was measured on the day of the report
BaselineInputs(day) ==
    {<<>>} \cup {<<[id |-> b, created_at |-> day]>> : b \in BaselineIds}

StoreReports ==
    UNION {{StoreReport(id, day, ms, b) : ms \in MutationIdLists, b \in BaselineInputs(day)} :
           id \in AssessmentIds, day \in Days}

Ids(table) == {row.id : row \in table}

\* INSERT INTO assessments: the row of the report; saved_from is not a column,
\* it records the report that the save_assessment call writing the row was given
AssessmentRow(r) ==
    [id |-> r.id, repo_path |-> r.repo_path,
     ref_before |-> r.ref_before, ref_after |-> r.ref_after,
     files_changed |-> json_dumps(r.files_changed),
     mutation_score |-> r.mutation_score, static_issues |-> r.static_issues,
     sentinel_warnings |-> r.sentinel_warnings, baseline_flaky |-> r.baseline_flaky,
     grade |-> r.overall_grade, created_at |-> r.created_at,
     saved_from |-> r]

\* one INSERT INTO mutation_cache; ok is FALSE when the PRIMARY KEY rejects it
_save_mutation(t, m, assessment_id) ==
    IF m.id \in Ids(t.mutation_cache) \/ assessment_id \notin Ids(t.assessments)
    THEN [t |-> t, ok |-> FALSE]
    ELSE [t |-> [t EXCEPT !.mutation_cache =
                     @ \cup {[id |-> m.id, assessment_id |-> assessment_id]}],
          ok |-> TRUE]

_save_baseline(t, b) ==
    IF b.id \in Ids(t.baselines)
    THEN [t |-> t, ok |-> FALSE]
    ELSE [t |-> [t EXCEPT !.baselines = @ \cup {[id |-> b.id, created_at |-> b.created_at]}],
          ok |-> TRUE]

\* the statements of save_assessment up to the first that raises; committed
\* says whether the final conn.commit() was reached
save_assessment(t, r) ==
    LET RECURSIVE mutations(_, _)
        mutations(cur, i) ==
            IF i > Len(r.mutations) THEN [t |-> cur, ok |-> TRUE]
            ELSE LET one == _save_mutation(cur, r.mutations[i], r.id)
                 IN  IF one.ok THEN mutations(one.t, i + 1) ELSE one
    IN  IF r.id \in Ids(t.assessments)
        THEN [t |-> t, committed |-> FALSE]
        ELSE LET ms == mutations([t EXCEPT !.assessments = @ \cup {AssessmentRow(r)}], 1)
             IN  IF ~ms.ok THEN [t |-> ms.t, committed |-> FALSE]
                 ELSE IF r.baseline = <<>> THEN [t |-> ms.t, committed |-> TRUE]
                 ELSE LET b == _save_baseline(ms.t, r.baseline[1])
                      IN  [t |-> b.t, committed |-> b.ok]

SaveAssessment ==
    \E r \in StoreReports :
        LET res == save_assessment(tx, r)
        IN  /\ tx' = res.t
            /\ db' = IF res.committed THEN res.t ELSE db
            /\ sret' = [op |-> "save_assessment", id |-> r.id, raised |-> ~res.committed]
            /\ UNCHANGED notStore

\* _row_to_assessment
_row_to_assessment(row) ==
    [id |-> row.id, repo_path |-> row.repo_path,
     ref_before |-> row.ref_before, ref_after |-> row.ref_after,
     files_changed |-> json_loads(row.files_changed),
     mutation_score |-> row.mutation_score, static_issues |-> row.static_issues,
     sentinel_warnings |-> row.sentinel_warnings, baseline_flaky |-> row.baseline_flaky,
     grade |-> row.grade, created_at |-> row.created_at]

\* get_assessment on a connection that sees t: <<>> is None
get_assessment(t, assessment_id) ==
    IF assessment_id \in Ids(t.assessments)
    THEN <<_row_to_assessment(CHOOSE row \in t.assessments : row.id = assessment_id)>>
    ELSE <<>>

GetAssessment ==
    \E id \in AssessmentIds :
        /\ sret' = [op |-> "get_assessment", id |-> id, result |-> get_assessment(tx, id)]
        /\ UNCHANGED <<db, tx, notStore>>

ValidOutcomes == {"accepted", "rejected", "modified"}
OutcomeInputs == {"modified", "Modified", "approved"}

\* save_feedback on a connection that does not enforce foreign keys
SaveFeedbackNoFK(t, fb) ==
    IF fb.id \in Ids(t.feedback)
    THEN [t |-> t, committed |-> FALSE]
    ELSE [t |-> [t EXCEPT !.feedback = @ \cup {fb}], committed |-> TRUE]

\* save_feedback: INSERT INTO feedback, then commit; the PRIMARY KEY and the
\* REFERENCES assessments(id) constraint can reject the row
save_feedback(t, fb) ==
    IF fb.id \in Ids(t.feedback) \/ fb.assessment_id \notin Ids(t.assessments)
    THEN [t |-> t, committed |-> FALSE]
    ELSE [t |-> [t EXCEPT !.feedback = @ \cup {fb}], committed |-> TRUE]

FeedbackInputs ==
    {[id |-> f, assessment_id |-> a, outcome |-> o] :
        f \in FeedbackIds, a \in AssessmentIds, o \in ValidOutcomes \cap OutcomeInputs}

SaveFeedback ==
    \E fb \in FeedbackInputs :
        LET res == save_feedback(tx, fb)
        IN  /\ tx' = res.t
            /\ db' = IF res.committed THEN res.t ELSE db
            /\ sret' = [op |-> "save_feedback", raised |-> ~res.committed]
            /\ UNCHANGED notStore

PrunesAtCutoff(created_at, cutoff) == created_at <= cutoff

\* WHERE created_at < datetime('now', '-N days')
IsOld(created_at, cutoff) == created_at < cutoff

\* a prune without the early return: old baselines go in every call
PrunesBaselinesAlways(t, cutoff) ==
    LET ids == {a.id : a \in {x \in t.assessments : IsOld(x.created_at, cutoff)}}
        del_feedback == {f \in t.feedback : f.assessment_id \in ids}
        del_mutation == {m \in t.mutation_cache : m.assessment_id \in ids}
        del_baselines == {b \in t.baselines : IsOld(b.created_at, cutoff)}
        del_assessments == {a \in t.assessments : a.id \in ids}
    IN  [t |-> [assessments |-> t.assessments \ del_assessments,
                mutation_cache |-> t.mutation_cache \ del_mutation,
                baselines |-> t.baselines \ del_baselines,
                feedback |-> t.feedback \ del_feedback],
         committed |-> TRUE,
         result |-> [feedback |-> Cardinality(del_feedback),
                     mutation_cache |-> Cardinality(del_mutation),
                     baselines |-> Cardinality(del_baselines),
                     assessments |-> Cardinality(del_assessments)]]

\* prune: rows of t older than the cutoff, deleted in dependency order
prune(t, cutoff) ==
    LET old_id_list == {a.id : a \in {x \in t.assessments : IsOld(x.created_at, cutoff)}}
        del_feedback == {f \in t.feedback : f.assessment_id \in old_id_list}
        del_mutation == {m \in t.mutation_cache : m.assessment_id \in old_id_list}
        del_baselines == {b \in t.baselines : IsOld(b.created_at, cutoff)}
        del_assessments == {a \in t.assessments : a.id \in old_id_list}
    IN  IF old_id_list = {}
        THEN [t |-> t, committed |-> FALSE,
              result |-> [feedback |-> 0, mutation_cache |-> 0, baselines |-> 0,
                          assessments |-> 0]]
        ELSE [t |-> [assessments |-> t.assessments \ del_assessments,
                     mutation_cache |-> t.mutation_cache \ del_mutation,
                     baselines |-> t.baselines \ del_baselines,
                     feedback |-> t.feedback \ del_feedback],
              committed |-> TRUE,
              result |-> [feedback |-> Cardinality(del_feedback),
                          mutation_cache |-> Cardinality(del_mutation),
                          baselines |-> Cardinality(del_baselines),
                          assessments |-> Cardinality(del_assessments)]]

Prune ==
    \E now \in NowInputs, retention_days \in RetentionInputs :
        LET res == prune(tx, now - retention_days)
        IN  /\ tx' = res.t
            /\ db' = IF res.committed THEN res.t ELSE db
            /\ sret' = [op |-> "prune", cutoff |-> now - retention_days,
                        result |-> res.result]
            /\ UNCHANGED notStore

\* close() and open(): the connection is closed without a commit, so its
\* pending rows are rolled back, and a new connection sees the file
Reopen ==
    /\ tx' = db
    /\ sret' = [op |-> "open"]
    /\ UNCHANGED <<db, notStore>>

\* FeedbackOutcome(value): the lookup by value is case-sensitive
FeedbackOutcome(value) == IF value \in ValidOutcomes THEN <<value>> ELSE <<>>

FeedbackUnvalidated(t, assessment_id, outcome_arg, fresh_id) ==
    IF get_assessment(t, assessment_id) = <<>>
    THEN [t |-> t, exit_code |-> 1]
    ELSE [t |-> save_feedback(t, [id |-> fresh_id, assessment_id |-> assessment_id,
                                   outcome |-> outcome_arg]).t,
          exit_code |-> 0]

\* the CLI command `feedback` on its own connection to the file holding t:
\* exit_code 1 is typer.Exit(1); fresh_id is the id of the new Feedback
feedback(t, assessment_id, outcome_arg, fresh_id) ==
    IF FeedbackOutcome(outcome_arg) = <<>>
    THEN [t |-> t, exit_code |-> 1]
    ELSE IF get_assessment(t, assessment_id) = <<>>
         THEN [t |-> t, exit_code |-> 1]
         ELSE [t |-> save_feedback(t, [id |-> fresh_id, assessment_id |-> assessment_id,
                                       outcome |-> FeedbackOutcome(outcome_arg)[1]]).t,
               exit_code |-> 0]

\* the server tool verdict_feedback: the returned text
verdict_feedback(t, assessment_id, outcome_arg, fresh_id) ==
    IF FeedbackOutcome(outcome_arg) = <<>>
    THEN [t |-> t, text |-> "Invalid outcome"]
    ELSE IF get_assessment(t, assessment_id) = <<>>
         THEN [t |-> t, text |-> "not found"]
         ELSE [t |-> save_feedback(t, [id |-> fresh_id, assessment_id |-> assessment_id,
                                       outcome |-> FeedbackOutcome(outcome_arg)[1]]).t,
               text |-> "Feedback recorded"]

\* both commands open the file themselves; they run while the other
\* connection has no transaction open, and the new id is a fresh uuid
CliFeedback ==
    /\ tx = db
    /\ \E a \in AssessmentIds, o \in OutcomeInputs, f \in FeedbackIds \ Ids(db.feedback) :
        LET res == feedback(db, a, o, f)
        IN  /\ db' = res.t
            /\ tx' = res.t
            /\ sret' = [op |-> "feedback", assessment_id |-> a,
                        outcome |-> o, failed |-> res.exit_code = 1]
    /\ UNCHANGED notStore

ServerFeedback ==
    /\ tx = db
    /\ \E a \in AssessmentIds, o \in OutcomeInputs, f \in FeedbackIds \ Ids(db.feedback) :
        LET res == verdict_feedback(db, a, o, f)
        IN  /\ db' = res.t
            /\ tx' = res.t
            /\ sret' = [op |-> "feedback", assessment_id |-> a,
                        outcome |-> o, failed |-> res.text # "Feedback recorded"]
    /\ UNCHANGED notStore

StoreInit ==
    /\ cfg = NoEngine /\ EngineIdle /\ ReportIdle /\ ConfigIdle /\ ScoreIdle /\ BaselineIdle
    /\ StoreIdle /\ MigrationIdle /\ DiffIdle /\ BridgeIdle /\ ToolIdle

StoreNext ==
    \/ SaveAssessment
    \/ GetAssessment
    \/ SaveFeedback
    \/ Prune
    \/ Reopen
    \/ CliFeedback
    \/ ServerFeedback

SpecStore == StoreInit /\ [][StoreNext]_vars

\* ---------------------------------------------------------------------------
\* C13: prune(retention_days) deletes exactly the assessments older than the
\* cutoff and every feedback and mutation_cache row that references them,
\* leaves every assessment at or newer than the cutoff and its child rows as
\* they were, returns the number of rows it deleted from each table, and
\* afterwards get_assessment of a pruned id returns nothing.
\* ---------------------------------------------------------------------------
C13_PruneDeletesExactlyOld ==
    [][sret'.op = "prune" =>
         LET old == {a \in tx.assessments : a.created_at < sret'.cutoff}
             old_ids == {a.id : a \in old}
         IN  /\ tx'.assessments = tx.assessments \ old
             /\ tx'.feedback = {f \in tx.feedback : f.assessment_id \notin old_ids}
             /\ tx'.mutation_cache =
                    {m \in tx.mutation_cache : m.assessment_id \notin old_ids}
             /\ sret'.result.assessments = Cardinality(old)
             /\ sret'.result.feedback =
                    Cardinality({f \in tx.feedback : f.assessment_id \in old_ids})
             /\ sret'.result.mutation_cache =
                    Cardinality({m \in tx.mutation_cache : m.assessment_id \in old_ids})
             /\ sret'.result.baselines =
                    Cardinality(tx.baselines) - Cardinality(tx'.baselines)
             /\ \A id \in old_ids : get_assessment(tx', id) = <<>>
    ]_vars

\* a prune that deleted one assessment with its feedback and mutation rows and
\* kept an assessment created exactly at the cutoff with its own child rows
C13_Witness ==
    /\ sret.op = "prune"
    /\ sret.result.assessments = 1
    /\ sret.result.feedback >= 1
    /\ sret.result.mutation_cache >= 1
    /\ \E a \in tx.assessments :
        /\ a.created_at = sret.cutoff
        /\ \E f \in tx.feedback : f.assessment_id = a.id
        /\ \E m \in tx.mutation_cache : m.assessment_id = a.id

\* the child rows of the report that wrote assessments row a are all in t
ChildrenPresent(t, a) ==
    /\ Ids(Listed(a.saved_from.mutations)) \subseteq
           Ids({x \in t.mutation_cache : x.assessment_id = a.id})
    /\ Ids(Listed(a.saved_from.baseline)) \subseteq Ids(t.baselines)

\* ---------------------------------------------------------------------------
\* C14: save_assessment is atomic: in every committed state of the database a
\* report's assessments row is present exactly when all of its mutation_cache
\* rows and its baseline row are present, also after a child insert failed
\* and another store operation committed on the same connection.
\* ---------------------------------------------------------------------------
C14_SaveAssessmentAtomic ==
    /\ \A a \in db.assessments : ChildrenPresent(db, a)
    /\ \A m \in db.mutation_cache : m.assessment_id \in Ids(db.assessments)

\* ---------------------------------------------------------------------------
\* C16: after save_assessment(r), and whatever saves of other reports and of
\* feedback follow, get_assessment(r.id) returns a record whose repo_path,
\* ref_before, ref_after, mutation_score, static_issues, sentinel_warnings,
\* baseline_flaky and created_at are r's, whose grade is r.overall_grade and
\* whose files_changed is r's list in r's order; get_assessment of an id that
\* has no saved report returns nothing.
\* ---------------------------------------------------------------------------
C16_SavedAssessmentReadsBack ==
    sret.op = "get_assessment" =>
        IF \E row \in tx.assessments : row.id = sret.id
        THEN LET r == (CHOOSE row \in tx.assessments : row.id = sret.id).saved_from
             IN  sret.result =
                     <<[id |-> r.id, repo_path |-> r.repo_path,
                        ref_before |-> r.ref_before, ref_after |-> r.ref_after,
                        files_changed |-> r.files_changed,
                        mutation_score |-> r.mutation_score,
                        static_issues |-> r.static_issues,
                        sentinel_warnings |-> r.sentinel_warnings,
                        baseline_flaky |-> r.baseline_flaky,
                        grade |-> r.overall_grade,
                        created_at |-> r.created_at]>>
        ELSE sret.result = <<>>

\* get_assessment returned the report with three file names, two of them with
\* characters JSON escapes, after another report and feedback on it were saved
C16_Witness ==
    /\ sret.op = "get_assessment"
    /\ sret.result # <<>>
    /\ sret.id = "a1"
    /\ sret.result[1].files_changed = <<FileNames.q, FileNames.a, FileNames.s>>
    /\ "a2" \in Ids(db.assessments)
    /\ \E f \in db.feedback : f.assessment_id = "a2"

\* ---------------------------------------------------------------------------
\* C17: a feedback submission, by the CLI command or by the server tool, whose
\* outcome is not accepted, rejected or modified, or whose assessment_id is
\* not in the store, fails and leaves the feedback table as it was; a valid
\* submission adds exactly one feedback row, referencing that assessment.
\* ---------------------------------------------------------------------------
C17_FeedbackValidated ==
    [][sret'.op = "feedback" =>
         IF \/ sret'.outcome \notin {"accepted", "rejected", "modified"}
            \/ sret'.assessment_id \notin Ids(db.assessments)
         THEN sret'.failed /\ db'.feedback = db.feedback
         ELSE /\ ~sret'.failed
              /\ db.feedback \subseteq db'.feedback
              /\ Cardinality(db'.feedback \ db.feedback) = 1
              /\ \A row \in db'.feedback \ db.feedback :
                     /\ row.assessment_id = sret'.assessment_id
                     /\ row.outcome = sret'.outcome
    ]_vars

\* a second valid submission for an assessment, in a store that holds
\* another assessment as well
C17_Witness ==
    /\ sret.op = "feedback"
    /\ ~sret.failed
    /\ Cardinality({f \in db.feedback : f.assessment_id = sret.assessment_id}) = 2
    /\ Cardinality(db.assessments) = 2

\* ---------------------------------------------------------------------------
\* Retention.  assess measures the baseline in step 2 and builds the report
\* in step 6, so a report's baseline was created before the report: on the
\* same day or on an earlier one.
\* ---------------------------------------------------------------------------
MeasuredReports ==
    UNION {{StoreReport(id, day, IF id = "a1" THEN <<"m1">> ELSE <<"m2">>, b) :
              b \in {<<>>} \cup {<<[id |-> "b1", created_at |-> d]>> :
                                    d \in {x \in Days : x <= day}}} :
           id \in AssessmentIds, day \in Days}

SaveMeasuredAssessment ==
    \E r \in MeasuredReports :
        LET res == save_assessment(tx, r)
        IN  /\ tx' = res.t
            /\ db' = IF res.committed THEN res.t ELSE db
            /\ sret' = [op |-> "save_assessment", id |-> r.id, raised |-> ~res.committed]
            /\ UNCHANGED notStore

RetentionNext == SaveMeasuredAssessment \/ Prune \/ Reopen

SpecRetention == StoreInit /\ [][RetentionNext]_vars

\* ---------------------------------------------------------------------------
\* C29: prune deletes the baselines rows older than the cutoff only when an
\* assessments row older than the cutoff exists; when there is none, prune
\* returns zero for all four tables and leaves every table as it was, so
\* baselines older than the cutoff stay in the store.
\* ---------------------------------------------------------------------------
C29_PruneSkipsBaselinesWithoutOldAssessment ==
    [][sret'.op = "prune" =>
          LET cutoff == sret'.cutoff
              old_exists == \E a \in tx.assessments : IsOld(a.created_at, cutoff)
              old_baselines == {b \in tx.baselines : IsOld(b.created_at, cutoff)}
          IN  IF old_exists
              THEN /\ tx'.baselines = tx.baselines \ old_baselines
                   /\ sret'.result.baselines = Cardinality(old_baselines)
              ELSE /\ sret'.result = [feedback |-> 0, mutation_cache |-> 0,
                                      baselines |-> 0, assessments |-> 0]
                   /\ tx' = tx /\ db' = db
                   /\ old_baselines \subseteq tx'.baselines]_vars

\* a prune that found no old assessment returned zeros, and a baseline older
\* than its cutoff is still stored
C29_Witness ==
    /\ sret.op = "prune"
    /\ sret.result = [feedback |-> 0, mutation_cache |-> 0, baselines |-> 0,
                      assessments |-> 0]
    /\ \E b \in db.baselines : IsOld(b.created_at, sret.cutoff)
    /\ \A a \in db.assessments : ~IsOld(a.created_at, sret.cutoff)

\* ---------------------------------------------------------------------------
\* Schema versions: open() -> _init_schema -> _run_migrations
\* ---------------------------------------------------------------------------

MaxVersion == 4

\* SCHEMA_VERSION of the running code, the keys of _MIGRATIONS, and the
\* schema_version row of the file (<<>>: a new file without the row)
SchemaVersions == 1..MaxVersion
Registries == SUBSET (1..(MaxVersion - 1))
StoredVersions(V) == {<<>>} \cup {<<v>> : v \in 1..(V + 1)}

LooksUpTarget(version, registry) == version + 1 \in registry

\* _MIGRATIONS.get(version) is not None
Registered(version, registry) == version \in registry

\* The schema of the file.  script: the tables and indices of _SCHEMA_SQL
\* exist; migrated: the versions k whose migration's statements are in the
\* file.  executescript commits, and a migration function is a sequence of
\* conn.execute DDL statements (CREATE INDEX), for which sqlite3 opens no
\* transaction: each takes effect in the file when it is executed.
\* A file written by older code may lack objects of today's _SCHEMA_SQL.
FileSchemas(V, stored) ==
    IF stored = <<>> THEN {[script |-> FALSE, migrated |-> {}]}
    ELSE IF stored[1] < V
         THEN {[script |-> b, migrated |-> {}] : b \in BOOLEAN}
         ELSE {[script |-> TRUE, migrated |-> {}]}

\* _init_schema: executescript(_SCHEMA_SQL); a file without the row gets
\* version V; an older file is migrated
OpenStore ==
    /\ mig.pc = "closed"
    /\ LET m == [mig EXCEPT !.before = mig.file, !.file.script = TRUE]
       IN  mig' = IF mig.stored = <<>>
                  THEN [m EXCEPT !.stored = <<mig.schema_version>>, !.current = <<>>,
                                 !.ran = <<>>, !.pc = "opened"]
                  ELSE IF mig.stored[1] < mig.schema_version
                       THEN [m EXCEPT !.current = mig.stored, !.version = mig.stored[1],
                                      !.ran = <<>>, !.pc = "migrating"]
                       ELSE [m EXCEPT !.current = mig.stored, !.ran = <<>>, !.pc = "opened"]
    /\ UNCHANGED notMigration

\* one iteration of `for version in range(current, SCHEMA_VERSION)` whose
\* migration function returns
MigrationRuns ==
    /\ mig.pc = "migrating"
    /\ mig.version < mig.schema_version
    /\ Registered(mig.version, mig.registry)
    /\ mig' = [mig EXCEPT !.ran = Append(@, mig.version), !.version = @ + 1,
                          !.file.migrated = @ \cup {mig.version}]
    /\ UNCHANGED notMigration

\* an iteration whose migration function raises: open() raises
MigrationRaises ==
    /\ mig.pc = "migrating"
    /\ mig.version < mig.schema_version
    /\ Registered(mig.version, mig.registry)
    /\ mig' = [mig EXCEPT !.pc = "raised"]
    /\ UNCHANGED notMigration

\* an iteration for a version without an entry in _MIGRATIONS
MigrationSkipped ==
    /\ mig.pc = "migrating"
    /\ mig.version < mig.schema_version
    /\ ~Registered(mig.version, mig.registry)
    /\ mig' = [mig EXCEPT !.version = @ + 1]
    /\ UNCHANGED notMigration

\* after the loop: INSERT OR REPLACE schema_version, commit
FinishMigrations ==
    /\ mig.pc = "migrating"
    /\ mig.version = mig.schema_version
    /\ mig' = [mig EXCEPT !.stored = <<mig.schema_version>>, !.pc = "opened"]
    /\ UNCHANGED notMigration

CloseStore ==
    /\ mig.pc \in {"opened", "raised"}
    /\ mig' = [mig EXCEPT !.pc = "closed"]
    /\ UNCHANGED notMigration

MigrationInit ==
    /\ cfg = NoEngine /\ EngineIdle /\ ReportIdle /\ ConfigIdle /\ ScoreIdle /\ BaselineIdle
    /\ StoreIdle /\ DiffIdle /\ BridgeIdle /\ ToolIdle
    /\ \E V \in SchemaVersions, registry \in Registries :
        \E stored \in StoredVersions(V) :
            \E file \in FileSchemas(V, stored) :
                mig = [NoMigration EXCEPT !.schema_version = V, !.registry = registry,
                                          !.stored = stored, !.file = file,
                                          !.before = file]

MigrationNext ==
    \/ OpenStore
    \/ MigrationRuns
    \/ MigrationRaises
    \/ MigrationSkipped
    \/ FinishMigrations
    \/ CloseStore

SpecMigrations == MigrationInit /\ [][MigrationNext]_vars

\* the registered versions in lo..hi, ascending
RegisteredIn(lo, hi) ==
    LET RECURSIVE up(_)
        up(k) == IF k > hi THEN <<>>
                 ELSE (IF k \in mig.registry THEN <<k>> ELSE <<>>) \o up(k + 1)
    IN  up(lo)

\* ---------------------------------------------------------------------------
\* C15: opening a store whose stored schema_version is v < V runs the
\* registered migrations for k = v .. V-1 in ascending order, each at most
\* once, skips every k without a registered migration, and then stores
\* version V; when the stored version is V already, or the file is new, no
\* migration runs and the stored version is V.
\* ---------------------------------------------------------------------------
C15_MigrationsAscendingOnce ==
    /\ mig.pc = "migrating" =>
           /\ mig.ran = RegisteredIn(mig.current[1], mig.version - 1)
           /\ mig.stored = mig.current
    /\ mig.pc = "opened" =>
           IF mig.current = <<>> \/ mig.current = <<mig.schema_version>>
           THEN mig.ran = <<>> /\ mig.stored = <<mig.schema_version>>
           ELSE IF mig.current[1] < mig.schema_version
                THEN /\ mig.ran = RegisteredIn(mig.current[1], mig.schema_version - 1)
                     /\ mig.stored = <<mig.schema_version>>
                ELSE mig.ran = <<>>

\* an open from version 1 to 4 that ran migrations 1 and 3 and skipped 2
C15_Witness ==
    /\ mig.pc = "opened"
    /\ mig.current = <<1>>
    /\ mig.schema_version = 4
    /\ mig.registry = {1, 3}
    /\ mig.ran = <<1, 3>>
    /\ mig.stored = <<4>>

\* ---------------------------------------------------------------------------
\* C24: if a migration function raises while open() migrates from v to V, the
\* open fails and the file is as it was before the open: no schema change of
\* this open persists and the stored schema_version is still v.
\* ---------------------------------------------------------------------------
C24_FailedMigrationLeavesFileUnchanged ==
    mig.pc = "raised" => (mig.file = mig.before /\ mig.stored = mig.current)

\* ---------------------------------------------------------------------------
\* parse_diff: git diff, the staged-only fallback, and the parser
\* ---------------------------------------------------------------------------

\* a line of git's output by the pattern it matches; counts are <<>> when the
\* hunk header leaves them out
Line(kind, path, old_start, old_count, new_start, new_count) ==
    [kind |-> kind, path |-> path, old_start |-> old_start, old_count |-> old_count,
     new_start |-> new_start, new_count |-> new_count]

DiffFileLine(path) == Line("diff", path, 0, <<>>, 0, <<>>)
HunkLine(old_start, old_count, new_start, new_count) ==
    Line("hunk", "", old_start, old_count, new_start, new_count)
MarkLine(kind) == Line(kind, "", 0, <<>>, 0, <<>>)

DiffOutputs ==
    {<<>>,
     <<DiffFileLine("a.py"), MarkLine("other"), HunkLine(3, <<>>, 3, <<2>>)>>,
     <<MarkLine("new"), DiffFileLine("b.txt"), MarkLine("deleted"),
       HunkLine(1, <<4>>, 0, <<0>>)>>}

\* int(group or "1")
CountOr1(count) == IF count = <<>> THEN 1 ELSE count[1]

\* _parse_diff_output: current_file is the last element of result.files
_parse_diff_output(output, ref_before, ref_after) ==
    LET RECURSIVE lines(_, _)
        lines(i, files) ==
            IF i > Len(output) THEN files
            ELSE LET line == output[i]
                     n == Len(files)
                 IN  IF line.kind = "diff"
                     THEN lines(i + 1, Append(files,
                              [path |-> line.path, added_lines |-> <<>>,
                               deleted_lines |-> <<>>, is_new |-> FALSE,
                               is_deleted |-> FALSE]))
                     ELSE IF n = 0 THEN lines(i + 1, files)
                     ELSE IF line.kind = "new"
                     THEN lines(i + 1, [files EXCEPT ![n].is_new = TRUE])
                     ELSE IF line.kind = "deleted"
                     THEN lines(i + 1, [files EXCEPT ![n].is_deleted = TRUE])
                     ELSE IF line.kind = "hunk"
                     THEN lines(i + 1,
                              [files EXCEPT
                                 ![n].deleted_lines =
                                     IF CountOr1(line.old_count) > 0
                                     THEN Append(@, <<line.old_start, CountOr1(line.old_count)>>)
                                     ELSE @,
                                 ![n].added_lines =
                                     IF CountOr1(line.new_count) > 0
                                     THEN Append(@, <<line.new_start, CountOr1(line.new_count)>>)
                                     ELSE @])
                     ELSE lines(i + 1, files)
    IN  [files |-> lines(1, <<>>), ref_before |-> ref_before, ref_after |-> ref_after]

RefInputs == {<<>>, <<"abc123">>}

\* what subprocess.run does: it raises, or returns a CompletedProcess
GitOutcomes ==
    {[exc |-> e, returncode |-> 0, head_in_stderr |-> FALSE, stdout |-> <<>>] :
        e \in {"TimeoutExpired", "FileNotFoundError", "PermissionError"}}
    \cup {[exc |-> "", returncode |-> rc, head_in_stderr |-> h, stdout |-> out] :
            rc \in {0, 128}, h \in BOOLEAN, out \in DiffOutputs}

\* the last argument of the first git diff command
DiffRange(ref_before, ref_after) ==
    IF ref_before # <<>> /\ ref_after # <<>> THEN <<ref_before[1], "..", ref_after[1]>>
    ELSE IF ref_before # <<>> THEN <<ref_before[1], "..", "HEAD">>
    ELSE <<"HEAD">>

CatchesTimeoutOnly(exc) == exc = "TimeoutExpired"

\* except subprocess.TimeoutExpired / except FileNotFoundError
Caught(exc) == exc \in {"TimeoutExpired", "FileNotFoundError"}

\* what parse_diff does with the outcome o of an invocation; a completed
\* process leads to position next
AfterRun(o, next) ==
    IF o.exc # ""
    THEN IF Caught(o.exc)
         THEN [dcall EXCEPT !.pc = "returned", !.exc = o.exc,
                            !.invocations = @ + 1,
                            !.result = <<[files |-> <<>>, ref_before |-> dcall.ref_before,
                                          ref_after |-> dcall.ref_after]>>]
         ELSE [dcall EXCEPT !.pc = "raised", !.exc = o.exc, !.invocations = @ + 1]
    ELSE [dcall EXCEPT !.pc = next, !.exc = "", !.invocations = @ + 1, !.proc = <<o>>]

\* subprocess.run(["git", "diff", "--unified=0", range])
GitDiff ==
    /\ dcall.pc = "start"
    /\ \E o \in GitOutcomes :
        dcall' = AfterRun(o, IF o.returncode # 0 /\ o.head_in_stderr
                             THEN "fallback" ELSE "parse")
    /\ UNCHANGED notDiff

\* subprocess.run(["git", "diff", "--unified=0", "--cached"])
GitDiffCached ==
    /\ dcall.pc = "fallback"
    /\ \E o \in GitOutcomes : dcall' = AfterRun(o, "parse")
    /\ UNCHANGED notDiff

\* return _parse_diff_output(result.stdout, ref_before, ref_after)
ReturnParsed ==
    /\ dcall.pc = "parse"
    /\ dcall' = [dcall EXCEPT !.pc = "returned",
                              !.result = <<_parse_diff_output(dcall.proc[1].stdout,
                                                              dcall.ref_before,
                                                              dcall.ref_after)>>]
    /\ UNCHANGED notDiff

DiffInit ==
    /\ cfg = NoEngine /\ EngineIdle /\ ReportIdle /\ ConfigIdle /\ ScoreIdle /\ BaselineIdle
    /\ StoreIdle /\ MigrationIdle /\ BridgeIdle /\ ToolIdle
    /\ \E rb \in RefInputs, ra \in RefInputs :
        dcall = [NoDiffCall EXCEPT !.ref_before = rb, !.ref_after = ra, !.pc = "start",
                                   !.cmd = <<"git", "diff", "--unified=0">>
                                           \o <<DiffRange(rb, ra)>>]

\* SeraphEngine.assess on the DiffResult: with no files it builds the empty
\* report, saves it and returns it (the save may raise); with files it goes
\* on to the analyzer stages
AssessOnDiff ==
    /\ dcall.pc = "returned"
    /\ \/ /\ dcall.result[1].files = <<>>
          /\ \/ dcall' = [dcall EXCEPT !.pc = "assessed",
                                       !.report = <<_empty_report("seraph")>>,
                                       !.persisted = TRUE]
             \/ dcall' = [dcall EXCEPT !.pc = "assess_raised"]
       \/ /\ dcall.result[1].files # <<>>
          /\ dcall' = [dcall EXCEPT !.pc = "pipeline"]
    /\ UNCHANGED notDiff

DiffNext == GitDiff \/ GitDiffCached \/ ReturnParsed \/ AssessOnDiff

SpecDiff == DiffInit /\ [][DiffNext]_vars

\* ---------------------------------------------------------------------------
\* C18: parse_diff never raises when the git invocation times out or the git
\* binary is missing, on the first invocation or on the staged-only fallback:
\* it returns a DiffResult with no files that carries the given ref_before
\* and ref_after.
\* ---------------------------------------------------------------------------
C18_TimeoutOrMissingGitGivesEmptyDiff ==
    dcall.exc \in {"TimeoutExpired", "FileNotFoundError"} =>
        /\ dcall.pc \in {"returned", "assessed", "assess_raised"}
        /\ dcall.result = <<[files |-> <<>>, ref_before |-> dcall.ref_before,
                             ref_after |-> dcall.ref_after]>>

\* the git binary disappears between the first invocation and the fallback
C18_Witness ==
    /\ dcall.exc = "FileNotFoundError"
    /\ dcall.invocations = 2
    /\ dcall.ref_before = <<"abc123">>
    /\ dcall.pc = "returned"

\* the git diff whose output parse_diff parsed exited non-zero without
\* mentioning HEAD in its error output
GitFailedSilently ==
    /\ dcall.proc # <<>> /\ dcall.exc = ""
    /\ dcall.proc[1].returncode # 0 /\ ~dcall.proc[1].head_in_stderr
    /\ dcall.result # <<>>

\* assess saved and returned the report of an empty change set
EmptyChangeSetReport ==
    /\ dcall.persisted
    /\ dcall.report = <<_empty_report("seraph")>>
    /\ dcall.report[1].overall_score = 10000
    /\ dcall.report[1].overall_grade = "A"
    /\ dcall.report[1].files_changed = <<>>

\* ---------------------------------------------------------------------------
\* C30: if git diff exits non-zero and its error output does not mention
\* HEAD, parse_diff raises nothing and returns no files, and the report that
\* assess saves and returns is the score-100, grade-A report of an empty
\* change set.
\* ---------------------------------------------------------------------------
C30_FailedDiffLooksEmpty ==
    GitFailedSilently =>
        /\ dcall.pc # "raised"
        /\ dcall.result[1].files = <<>>
        /\ dcall.pc = "assessed" => EmptyChangeSetReport

\* C30 as it holds: the same for a failed git diff that wrote no diff to its
\* standard output, as when the path is not a repository; a failed git diff
\* that wrote part of a diff before it died has that part parsed.
C30_FailedDiffWithoutOutputLooksEmpty ==
    (GitFailedSilently /\ dcall.proc[1].stdout = <<>>) =>
        /\ dcall.pc \in {"returned", "assessed", "assess_raised"}
        /\ dcall.result[1].files = <<>>
        /\ dcall.pc = "assessed" => EmptyChangeSetReport

\* assess returned the empty report after git diff exited with 128, nothing
\* on standard output and no HEAD in its error output
C30_Witness ==
    /\ GitFailedSilently /\ dcall.proc[1].stdout = <<>>
    /\ dcall.proc[1].returncode = 128
    /\ dcall.invocations = 1
    /\ dcall.pc = "assessed"
    /\ EmptyChangeSetReport

\* ---------------------------------------------------------------------------
\* SentinelBridge: construction, get_risk_signals and the three queries
\* ---------------------------------------------------------------------------

\* the pitfalls the knowledge store records; code_pattern <<>> is None
Pitfall(id, file_paths, code_pattern) ==
    [id |-> id, file_paths |-> file_paths, code_pattern |-> code_pattern]

PitfallInputs ==
    {Pitfall("p1", <<"z.py", "a.py", "b.py">>, <<"eval">>),
     Pitfall("p2", <<>>, <<"eval">>),
     Pitfall("p3", <<"z.py">>, <<"(">>),
     Pitfall("p4", <<"z.py">>, <<>>)}

\* get_pitfalls returns rows, each pitfall once
MaxPitfalls == 2
PitfallLists ==
    UNION {{q \in [1..n -> PitfallInputs] : \A i, j \in 1..n : i # j => q[i] # q[j]} :
           n \in 0..MaxPitfalls}

\* the working tree: per path whether it exists, whether read_text raises
\* OSError, and the words of its content
File(exists, readable, content) ==
    [exists |-> exists, readable |-> readable, content |-> content]

FileSystems ==
    [both |-> [f \in {"a.py", "b.py", "c.py"} |->
                 IF f = "c.py" THEN File(FALSE, FALSE, {})
                 ELSE File(TRUE, TRUE, {"eval", "import"})],
     one  |-> [f \in {"a.py", "b.py", "c.py"} |->
                 IF f = "a.py" THEN File(TRUE, FALSE, {"eval"})
                 ELSE IF f = "b.py" THEN File(TRUE, TRUE, {"eval"})
                 ELSE File(TRUE, TRUE, {"import"})]]

BridgeChangedFiles == {<<>>, <<"a.py", "b.py">>, <<"c.py", "b.py", "a.py">>}

\* re.compile raises re.error for an unbalanced parenthesis
ValidRegex(pattern) == pattern # "("

\* pattern.search(content), for patterns that are plain words
Search(pattern, content) == pattern \in content

\* _match_pitfalls
_match_pitfalls(pitfalls, changed_files, fs) ==
    LET changed_set == Listed(changed_files)
        InChanged(f) == f \in changed_set
        match(pitfall, file, type) ==
            [pitfall_id |-> pitfall.id, matched_file |-> file, match_type |-> type]
        RECURSIVE files(_, _, _)
        files(pitfall, i, matches) ==
            IF i > Len(changed_files) THEN matches
            ELSE LET file_path == changed_files[i]
                     full_path == fs[file_path]
                 IN  IF ~full_path.exists THEN files(pitfall, i + 1, matches)
                     ELSE IF ~full_path.readable THEN files(pitfall, i + 1, matches)
                     ELSE IF Search(pitfall.code_pattern[1], full_path.content)
                     THEN files(pitfall, i + 1,
                                Append(matches, match(pitfall, file_path, "code_pattern")))
                     ELSE files(pitfall, i + 1, matches)
        RECURSIVE each(_, _)
        each(k, matches) ==
            IF k > Len(pitfalls) THEN matches
            ELSE LET pitfall == pitfalls[k]
                     file_path_matches == SelectSeq(pitfall.file_paths, InChanged)
                 IN  IF file_path_matches # <<>>
                     THEN each(k + 1, Append(matches,
                              match(pitfall, file_path_matches[1], "file_path")))
                     ELSE IF pitfall.code_pattern = <<>> THEN each(k + 1, matches)
                     ELSE IF ~ValidRegex(pitfall.code_pattern[1]) THEN each(k + 1, matches)
                     ELSE each(k + 1, files(pitfall, 1, matches))
    IN  each(1, <<>>)

\* the hot_files and co_changes tables of the knowledge store
KnownHotFile(f) ==
    IF f = "a.py"
    THEN <<[file_path |-> "a.py", churn_score |-> 42, change_count |-> 10,
            bug_fix_count |-> 2, revert_count |-> 0]>>
    ELSE <<>>

KnownCoChanges(f) ==
    IF f = "a.py"
    THEN <<[file_a |-> "a.py", file_b |-> "d.py", change_count |-> 3],
           [file_a |-> "e.py", file_b |-> "a.py", change_count |-> 7]>>
    ELSE IF f = "b.py"
    THEN <<[file_a |-> "b.py", file_b |-> "d.py", change_count |-> 5],
           [file_a |-> "b.py", file_b |-> "a.py", change_count |-> 9],
           [file_a |-> "g.py", file_b |-> "b.py", change_count |-> 7]>>
    ELSE <<>>

\* _get_hot_files
_get_hot_files(changed_files) ==
    Concat([i \in 1..Len(changed_files) |-> KnownHotFile(changed_files[i])])

\* sorted(missing, key=change_count, reverse=True): stable
SortedByCountDesc(missing) ==
    LET RECURSIVE insert(_, _)
        insert(sorted, x) ==
            IF sorted = <<>> THEN <<x>>
            ELSE IF Head(sorted).change_count >= x.change_count
                 THEN <<Head(sorted)>> \o insert(Tail(sorted), x)
                 ELSE <<x>> \o sorted
        RECURSIVE all(_, _)
        all(i, sorted) ==
            IF i > Len(missing) THEN sorted ELSE all(i + 1, insert(sorted, missing[i]))
    IN  all(1, <<>>)

\* _get_missing_co_changes
_get_missing_co_changes(changed_files) ==
    LET changed_set == Listed(changed_files)
        pairs == Concat([i \in 1..Len(changed_files) |->
                     LET f == changed_files[i]
                         co_changes == KnownCoChanges(f)
                     IN  [j \in 1..Len(co_changes) |->
                            [source_file |-> f,
                             partner_file |-> IF co_changes[j].file_a = f
                                              THEN co_changes[j].file_b
                                              ELSE co_changes[j].file_a,
                             change_count |-> co_changes[j].change_count]]])
        RECURSIVE collect(_, _, _)
        collect(i, seen_pairs, missing) ==
            IF i > Len(pairs) THEN missing
            ELSE IF pairs[i].partner_file \notin changed_set
                    /\ pairs[i].partner_file \notin seen_pairs
                 THEN collect(i + 1, seen_pairs \cup {pairs[i].partner_file},
                              Append(missing, pairs[i]))
                 ELSE collect(i + 1, seen_pairs, missing)
    IN  SortedByCountDesc(collect(1, {}, <<>>))

\* the number of queries get_risk_signals sends to the store
QueryCount(changed_files) == 1 + 2 * Len(changed_files)

\* SentinelBridge.__init__
Construct ==
    /\ bridge.pc = "new"
    /\ bridge' =
        IF ~bridge.db_exists THEN [bridge EXCEPT !.pc = "constructed"]
        ELSE IF ~bridge.importable THEN [bridge EXCEPT !.pc = "constructed"]
        ELSE IF bridge.opening = "init_raises" THEN [bridge EXCEPT !.pc = "constructed"]
        ELSE IF bridge.opening = "open_raises"
             THEN [bridge EXCEPT !.pc = "constructed", !.store = <<[opened |-> FALSE]>>]
             ELSE [bridge EXCEPT !.pc = "constructed", !.store = <<[opened |-> TRUE]>>,
                                 !.available = TRUE]
    /\ UNCHANGED notBridge

\* get_risk_signals when the queries return; a store whose open() had raised
\* may answer them or raise (GetRiskSignalsRaises)
GetRiskSignals ==
    /\ bridge.pc = "constructed"
    /\ bridge' =
        IF bridge.store = <<>>
        THEN [bridge EXCEPT !.pc = "returned", !.signals = <<NoSignals>>]
        ELSE [bridge EXCEPT
                !.pc = "returned",
                !.queries = QueryCount(bridge.changed_files),
                !.signals =
                    <<[available |-> TRUE,
                       pitfall_matches |->
                           _match_pitfalls(bridge.pitfalls, bridge.changed_files,
                                           FileSystems[bridge.fs]),
                       hot_files |-> _get_hot_files(bridge.changed_files),
                       missing_co_changes |->
                           _get_missing_co_changes(bridge.changed_files)]>>]
    /\ UNCHANGED notBridge

\* get_risk_signals on a bridge that kept a store whose open() had raised:
\* the first query raises
GetRiskSignalsRaises ==
    /\ bridge.pc = "constructed"
    /\ bridge.store # <<>>
    /\ ~bridge.store[1].opened
    /\ bridge' = [bridge EXCEPT !.pc = "raised", !.queries = 1]
    /\ UNCHANGED notBridge

BridgeInit ==
    /\ cfg = NoEngine /\ EngineIdle /\ ReportIdle /\ ConfigIdle /\ ScoreIdle /\ BaselineIdle
    /\ StoreIdle /\ MigrationIdle /\ DiffIdle /\ ToolIdle
    /\ \E db_exists \in BOOLEAN, importable \in BOOLEAN,
          opening \in {"ok", "init_raises", "open_raises"},
          pitfalls \in PitfallLists, fs \in DOMAIN FileSystems,
          changed_files \in BridgeChangedFiles :
        bridge = [NoBridge EXCEPT !.db_exists = db_exists, !.importable = importable,
                                  !.opening = opening, !.pitfalls = pitfalls, !.fs = fs,
                                  !.changed_files = changed_files, !.pc = "new"]

BridgeNext == Construct \/ GetRiskSignals \/ GetRiskSignalsRaises

SpecBridge == BridgeInit /\ [][BridgeNext]_vars

\* ---------------------------------------------------------------------------
\* C19: if the knowledge database file is missing, the oracle library cannot
\* be imported, or opening the knowledge store raises, the bridge reports
\* available=False and get_risk_signals returns available=False with empty
\* lists without sending a query to the store, so Sentinel Risk and Co-change
\* Coverage both score 100.
\* ---------------------------------------------------------------------------
C19_UnavailableOracleGivesNoSignals ==
    (~bridge.db_exists \/ ~bridge.importable \/ bridge.opening # "ok") =>
        /\ bridge.pc \in {"constructed", "returned", "raised"} => ~bridge.available
        /\ bridge.pc \in {"returned", "raised"} =>
               /\ bridge.pc = "returned"
               /\ bridge.signals = <<NoSignals>>
               /\ bridge.queries = 0
               /\ compute_risk_score(bridge.signals[1], ScoringDefaults) = 10000
               /\ compute_co_change_score(bridge.signals[1], bridge.changed_files) = 10000

\* the matches get_risk_signals returned for pitfall p
MatchesOf(p) ==
    LET Mine(m) == m.pitfall_id = p.id
    IN  SelectSeq(bridge.signals[1].pitfall_matches, Mine)

\* the positions in changed_files of the files whose content p's pattern matches
PatternHits(p) ==
    {i \in 1..Len(bridge.changed_files) :
        LET file == FileSystems[bridge.fs][bridge.changed_files[i]]
        IN  file.exists /\ file.readable /\ Search(p.code_pattern[1], file.content)}

\* ---------------------------------------------------------------------------
\* C20: pitfall matching yields at most one match per recorded pitfall: a
\* pitfall whose file paths contain a changed file yields exactly one match,
\* of type file_path, and is not regex-searched; otherwise only the first
\* changed file, in diff order, whose content matches the pitfall's regular
\* expression yields one match of type code_pattern; an invalid regular
\* expression yields none.
\* ---------------------------------------------------------------------------
C20_OneMatchPerPitfall ==
    (bridge.pc = "returned" /\ bridge.signals[1].available) =>
        \A k \in 1..Len(bridge.pitfalls) :
            LET p == bridge.pitfalls[k]
                ms == MatchesOf(p)
                by_path == Listed(p.file_paths) \cap Listed(bridge.changed_files)
            IN  /\ Len(ms) <= 1
                /\ IF by_path # {}
                   THEN /\ Len(ms) = 1
                        /\ ms[1].match_type = "file_path"
                        /\ ms[1].matched_file \in by_path
                   ELSE IF p.code_pattern # <<>> /\ ValidRegex(p.code_pattern[1])
                           /\ PatternHits(p) # {}
                   THEN /\ Len(ms) = 1
                        /\ ms[1].match_type = "code_pattern"
                        /\ ms[1].matched_file =
                               bridge.changed_files[
                                   CHOOSE i \in PatternHits(p) :
                                       \A j \in PatternHits(p) : i <= j]
                   ELSE ms = <<>>

\* the paths of the model in ascending lexicographic order
PathOrder == <<"a.py", "b.py", "c.py", "d.py", "e.py", "g.py">>

PathRank(path) == CHOOSE i \in 1..Len(PathOrder) : PathOrder[i] = path

\* the historical partners of the changed files
PartnersOf(changed_files) ==
    UNION {{IF KnownCoChanges(f)[j].file_a = f THEN KnownCoChanges(f)[j].file_b
            ELSE KnownCoChanges(f)[j].file_a : j \in 1..Len(KnownCoChanges(f))} :
           f \in Listed(changed_files)}

\* ---------------------------------------------------------------------------
\* C21: the missing-co-change list holds each historical partner of a changed
\* file that is not itself changed exactly once, and no changed file, ordered
\* by change_count descending with ties in ascending lexicographic order of
\* the partner path.
\* ---------------------------------------------------------------------------
C21_MissingCoChangesOrdered ==
    (bridge.pc = "returned" /\ bridge.signals[1].available) =>
        LET missing == bridge.signals[1].missing_co_changes
        IN  /\ {missing[i].partner_file : i \in 1..Len(missing)} =
                   PartnersOf(bridge.changed_files) \ Listed(bridge.changed_files)
            /\ \A i, j \in 1..Len(missing) :
                   i < j =>
                       /\ missing[i].partner_file # missing[j].partner_file
                       /\ \/ missing[i].change_count > missing[j].change_count
                          \/ /\ missing[i].change_count = missing[j].change_count
                             /\ PathRank(missing[i].partner_file)
                                    < PathRank(missing[j].partner_file)

(***************************************************************************)
(* _truncate of mcp/formatters.py, which every formatter of the MCP server *)
(* applies to its text with max_chars = config.pipeline.max_output_chars.  *)
(* A text is a sequence of characters.  The configuration takes            *)
(* max_output_chars from config.toml or from the environment as any int.   *)
(***************************************************************************)
MaxTextLen == 80     \* characters of a formatted text

\* "\n\n... (output truncated)"
TruncationSuffix ==
    <<"\n", "\n", ".", ".", ".", " ", "(", "o", "u", "t", "p", "u", "t", " ",
      "t", "r", "u", "n", "c", "a", "t", "e", "d", ")">>

\* the characters kept in front of the suffix are max_chars - TruncationMargin
TruncationMargin == 50

TextChars == <<"a", "b", "c">>

Texts == {[i \in 1..n |-> TextChars[(i % 3) + 1]] : n \in 0..MaxTextLen}

MaxCharsInputs == {0, 10, 49, 50, 51, 74}

\* Python's text[:stop]: a negative stop counts from the end of the text
SliceTo(text, stop) ==
    LET n == Len(text)
        k == IF stop < 0 THEN Max(n + stop, 0) ELSE Min(stop, n)
    IN SubSeq(text, 1, k)

_truncate(text, max_chars) ==
    IF Len(text) <= max_chars
    THEN text
    ELSE SliceTo(text, max_chars - TruncationMargin) \o TruncationSuffix

Truncate ==
    /\ trunc.pc = "called"
    /\ trunc' = [trunc EXCEPT !.pc = "returned",
                              !.result = <<_truncate(trunc.text, trunc.max_chars)>>]
    /\ UNCHANGED notTruncate

\* the caller reads the text it was given
ReadTruncated ==
    /\ trunc.pc = "returned"
    /\ trunc' = [trunc EXCEPT !.pc = "read"]
    /\ UNCHANGED notTruncate

TruncateInit ==
    /\ cfg = NoEngine /\ EngineIdle /\ ReportIdle /\ ConfigIdle
    /\ ScoreIdle /\ BaselineIdle /\ StoreIdle /\ MigrationIdle /\ DiffIdle /\ BridgeIdle
    /\ mrun = NoMutationRun /\ conns = NoConnections
    /\ \E text \in Texts, max_chars \in MaxCharsInputs :
         trunc = [text |-> text, max_chars |-> max_chars, pc |-> "called", result |-> <<>>]

TruncateNext == Truncate \/ ReadTruncated

SpecTruncate == TruncateInit /\ [][TruncateNext]_vars

EndsWith(text, suffix) ==
    /\ Len(text) >= Len(suffix)
    /\ SubSeq(text, Len(text) - Len(suffix) + 1, Len(text)) = suffix

\* C22: for every text and every configured max_chars, _truncate returns the
\* text unchanged when it has at most max_chars characters, and otherwise a
\* text of at most max_chars characters that ends with "... (output truncated)".
C22_TruncateWithinBudget ==
    trunc.pc = "returned" =>
        LET result == trunc.result[1] IN
        IF Len(trunc.text) <= trunc.max_chars
        THEN result = trunc.text
        ELSE /\ Len(result) <= trunc.max_chars
             /\ EndsWith(result, SubSeq(TruncationSuffix, 3, Len(TruncationSuffix)))

(***************************************************************************)
(* Two VerdictStore connections to one database file, for example the CLI  *)
(* and the MCP server.  db is the committed content of the file.  SQLite   *)
(* lets one connection at a time hold the write lock: a DML statement of   *)
(* sqlite3 opens a transaction, takes the lock and keeps it until commit,  *)
(* rollback or close, and a write statement of the other connection fails  *)
(* with "database is locked".  Every connection runs PRAGMA                *)
(* foreign_keys=ON in open().  prune reads old_id_list with a SELECT that  *)
(* holds no lock, so the other connection can commit between that SELECT   *)
(* and the DELETE statements.                                              *)
(***************************************************************************)
Connections == {1, 2}

\* what connection c reads
View(c) == IF conns.writer = c THEN conns.pending ELSE db

\* the other connection has no open write transaction
CanWrite(c) == conns.writer \in {0, c}

\* reports of the two connections
SharedReports == {r \in StoreReports : r.baseline = <<>>}

SharedFeedback == {[id |-> "f1", assessment_id |-> a, outcome |-> "modified"] :
                      a \in AssessmentIds}

\* a statement sequence on connection c ended: with a commit the file takes
\* the connection's content and the lock is released, with an exception the
\* transaction stays open
AfterWrite(c, res, last) ==
    /\ db' = IF res.committed THEN res.t ELSE db
    /\ conns' = [conns EXCEPT
                   !.writer = IF res.committed THEN 0 ELSE c,
                   !.pending = IF res.committed THEN EmptyTables ELSE res.t,
                   !.last = last]

\* sqlite3.OperationalError: database is locked
Locked(c, op) ==
    /\ ~CanWrite(c)
    /\ conns' = [conns EXCEPT !.last = [op |-> op, conn |-> c, raised |-> TRUE,
                                        locked |-> TRUE]]
    /\ UNCHANGED db

ConnSaveAssessment(c) ==
    /\ conns.pruning[c] = <<>>
    /\ \/ Locked(c, "save_assessment")
       \/ /\ CanWrite(c)
          /\ \E r \in SharedReports :
               LET res == save_assessment(View(c), r)
               IN  AfterWrite(c, res, [op |-> "save_assessment", conn |-> c,
                                       raised |-> ~res.committed, locked |-> FALSE])
    /\ UNCHANGED notShared

ConnSaveFeedback(c) ==
    /\ conns.pruning[c] = <<>>
    /\ \/ Locked(c, "save_feedback")
       \/ /\ CanWrite(c)
          /\ \E fb \in SharedFeedback :
               LET res == save_feedback(View(c), fb)
               IN  AfterWrite(c, res,
                              [op |-> "save_feedback", conn |-> c,
                               raised |-> ~res.committed, locked |-> FALSE,
                               parent_seen |-> fb.assessment_id \in Ids(View(c).assessments)])
    /\ UNCHANGED notShared

\* SELECT id FROM assessments WHERE created_at < cutoff
old_id_list(t, cutoff) == {a.id : a \in {x \in t.assessments : IsOld(x.created_at, cutoff)}}

\* prune up to the early return: with no old assessment the call returns zeros
ConnPruneSelect(c) ==
    /\ conns.pruning[c] = <<>>
    /\ \E now \in NowInputs, retention_days \in RetentionInputs :
         LET cutoff == now - retention_days
             ids == old_id_list(View(c), cutoff)
         IN  conns' = [conns EXCEPT
                         !.pruning[c] = IF ids = {} THEN <<>>
                                        ELSE <<[old_id_list |-> ids, cutoff |-> cutoff]>>,
                         !.last = [op |-> "prune_select", conn |-> c, raised |-> FALSE,
                                   locked |-> FALSE]]
    /\ UNCHANGED <<notShared, db>>

\* the four DELETE statements of prune and its commit.  The REFERENCES
\* constraints make DELETE FROM assessments raise when a feedback or
\* mutation_cache row still references a deleted id.
prune_statements(t, ids, cutoff) ==
    LET feedback_left == {f \in t.feedback : f.assessment_id \notin ids}
        mutation_left == {m \in t.mutation_cache : m.assessment_id \notin ids}
        baselines_left == {b \in t.baselines : ~IsOld(b.created_at, cutoff)}
        children == [t EXCEPT !.feedback = feedback_left,
                              !.mutation_cache = mutation_left,
                              !.baselines = baselines_left]
        referenced == {f.assessment_id : f \in feedback_left}
                          \cup {m.assessment_id : m \in mutation_left}
    IN  IF ids \cap referenced # {}
        THEN [t |-> children, committed |-> FALSE]
        ELSE [t |-> [children EXCEPT !.assessments = {a \in @ : a.id \notin ids}],
              committed |-> TRUE]

ConnPruneDelete(c) ==
    /\ conns.pruning[c] # <<>>
    /\ LET call == conns.pruning[c][1] IN
       \/ /\ ~CanWrite(c)
          /\ conns' = [conns EXCEPT !.pruning[c] = <<>>,
                                    !.last = [op |-> "prune", conn |-> c, raised |-> TRUE,
                                              locked |-> TRUE]]
          /\ UNCHANGED db
       \/ /\ CanWrite(c)
          /\ LET res == prune_statements(View(c), call.old_id_list, call.cutoff)
             IN  /\ db' = IF res.committed THEN res.t ELSE db
                 /\ conns' = [conns EXCEPT
                      !.writer = IF res.committed THEN 0 ELSE c,
                      !.pending = IF res.committed THEN EmptyTables ELSE res.t,
                      !.pruning[c] = <<>>,
                      !.last = [op |-> "prune", conn |-> c, raised |-> ~res.committed,
                                locked |-> FALSE,
                                stale |-> call.old_id_list
                                            # old_id_list(View(c), call.cutoff)]]
    /\ UNCHANGED notShared

\* close() and open() of one connection: an open transaction is rolled back
ConnReopen(c) ==
    /\ conns.pruning[c] = <<>>
    /\ conns.writer = c
    /\ conns' = [conns EXCEPT !.writer = 0, !.pending = EmptyTables,
                              !.last = [op |-> "open", conn |-> c]]
    /\ UNCHANGED <<notShared, db>>

SharedInit ==
    /\ cfg = NoEngine /\ EngineIdle /\ ReportIdle /\ ConfigIdle /\ LibIdle

SharedNext ==
    \E c \in Connections :
        \/ ConnSaveAssessment(c)
        \/ ConnSaveFeedback(c)
        \/ ConnPruneSelect(c)
        \/ ConnPruneDelete(c)
        \/ ConnReopen(c)

SpecShared == SharedInit /\ [][SharedNext]_vars

\* every feedback and mutation_cache row of t references an assessment of t
NoOrphans(t) ==
    /\ \A f \in t.feedback : f.assessment_id \in Ids(t.assessments)
    /\ \A m \in t.mutation_cache : m.assessment_id \in Ids(t.assessments)

\* C23: over any interleaving of save_assessment, save_feedback and prune on
\* two connections to one file, every committed state has no orphaned child
\* row; a save_feedback whose assessment id has no assessments row inserts
\* nothing; and committed child rows disappear only in a prune, which never
\* leaves a child of an assessment it deleted.
C23_NoOrphanedChildRows ==
    /\ [](NoOrphans(db))
    /\ [][/\ (conns'.last.op = "save_feedback" /\ ~conns'.last.locked
                 /\ ~conns'.last.parent_seen)
             => (db' = db /\ conns'.pending.feedback = View(conns'.last.conn).feedback
                 /\ conns'.last.raised)
          /\ (~(db.feedback \subseteq db'.feedback)
                 \/ ~(db.mutation_cache \subseteq db'.mutation_cache))
             => (/\ conns'.last.op = "prune"
                 /\ \A a \in db.assessments \ db'.assessments :
                      /\ \A f \in db'.feedback : f.assessment_id # a.id
                      /\ \A m \in db'.mutation_cache : m.assessment_id # a.id)]_vars

\* a prune whose id list was read before the other connection committed has
\* deleted rows, and child rows of a kept assessment remain
C23_Witness ==
    /\ conns.last.op = "prune" /\ ~conns.last.raised /\ conns.last.stale
    /\ db.feedback # {} /\ db.mutation_cache # {}

(***************************************************************************)
(* run_mutations of core/mutator.py.  A path is a sequence of characters.  *)
(* What subprocess.run does for a file (mutmut missing, timeout, or a run  *)
(* whose results are then parsed) is an input of each loop iteration.      *)
(***************************************************************************)
MaxFiles == 3        \* files of one diff

DotPy == <<".", "p", "y">>

MutatorPaths ==
    {<<"a", ".", "p", "y">>, <<"c", ".", "p", "y">>, <<"b", ".", "t", "x", "t">>,
     <<"g", "o", "n", "e", ".", "p", "y">>}

\* full_path.exists()
OnDisk == MutatorPaths \ {<<"g", "o", "n", "e", ".", "p", "y">>}

RECURSIVE PathLists(_)
PathLists(n) ==
    IF n = 0 THEN {<<>>}
    ELSE PathLists(n - 1) \cup
         {Append(q, f) : q \in {x \in PathLists(n - 1) : Len(x) = n - 1}, f \in MutatorPaths}

MutationResult(file_path, mutant_id, operator, status) ==
    [file_path |-> file_path, mutant_id |-> mutant_id, operator |-> operator,
     status |-> status]

\* what _parse_mutmut_results finds for a file
ParsedResults(file_path) ==
    {<<>>,
     <<MutationResult(file_path, "1", "unknown", "killed")>>,
     <<MutationResult(file_path, "1", "unknown", "killed"),
       MutationResult(file_path, "2", "unknown", "survived")>>}

RunnerOutcomes == {"FileNotFoundError", "TimeoutExpired", "completed"}

TimeoutGivesNothing(file_path, run, parsed) ==
    IF run = "completed" THEN [results |-> parsed, available |-> TRUE]
    ELSE [results |-> <<>>, available |-> run = "TimeoutExpired"]

_mutate_single_file(file_path, run, parsed) ==
    IF run = "TimeoutExpired"
    THEN [results |-> <<MutationResult(file_path, "timeout", "all", "timeout")>>,
          available |-> TRUE]
    ELSE IF run = "FileNotFoundError"
         THEN [results |-> <<>>, available |-> FALSE]
         ELSE [results |-> parsed, available |-> TRUE]

\* an iteration of `for file_path in files` that reaches `continue`
SkipFile ==
    /\ mrun.pc = "loop" /\ mrun.next <= Len(mrun.files)
    /\ LET file_path == mrun.files[mrun.next]
       IN  /\ ~EndsWith(file_path, DotPy) \/ file_path \notin OnDisk
           /\ mrun' = [mrun EXCEPT !.next = @ + 1]
    /\ UNCHANGED notMutator

\* an iteration that calls _mutate_single_file
MutateFile ==
    /\ mrun.pc = "loop" /\ mrun.next <= Len(mrun.files)
    /\ LET file_path == mrun.files[mrun.next]
       IN  /\ EndsWith(file_path, DotPy) /\ file_path \in OnDisk
           /\ \E run \in RunnerOutcomes, parsed \in ParsedResults(file_path) :
                LET one == _mutate_single_file(file_path, run, parsed)
                IN  /\ run # "completed" => parsed = <<>>
                    /\ mrun' = [mrun EXCEPT
                         !.next = @ + 1,
                         !.all_results = @ \o one.results,
                         !.tool_available = IF one.available THEN TRUE ELSE @,
                         !.calls = Append(@, [file_path |-> file_path, run |-> run,
                                              parsed |-> parsed])]
    /\ UNCHANGED notMutator

\* return MutationRunResult(results=all_results, tool_available=tool_available)
ReturnMutations ==
    /\ mrun.pc = "loop" /\ mrun.next > Len(mrun.files)
    /\ mrun' = [mrun EXCEPT !.pc = "returned"]
    /\ UNCHANGED notMutator

\* compute_mutation_score on the returned results
ScoreMutations ==
    /\ mrun.pc = "returned"
    /\ mrun' = [mrun EXCEPT !.pc = "scored",
                            !.score = <<compute_mutation_score(mrun.all_results)>>]
    /\ UNCHANGED notMutator

MutatorInit ==
    /\ cfg = NoEngine /\ EngineIdle /\ ReportIdle /\ ConfigIdle
    /\ ScoreIdle /\ BaselineIdle /\ StoreIdle /\ MigrationIdle /\ DiffIdle /\ BridgeIdle
    /\ trunc = NoTruncate /\ conns = NoConnections
    /\ \E files \in PathLists(MaxFiles) :
         mrun = [NoMutationRun EXCEPT !.files = files, !.pc = "loop"]

MutatorNext == SkipFile \/ MutateFile \/ ReturnMutations \/ ScoreMutations

SpecMutator == MutatorInit /\ [][MutatorNext]_vars

\* the listed files that end in .py and exist, in the order of the list
RECURSIVE Processed(_)
Processed(files) ==
    IF files = <<>> THEN <<>>
    ELSE (IF EndsWith(Head(files), DotPy) /\ Head(files) \in OnDisk
          THEN <<Head(files)>> ELSE <<>>) \o Processed(Tail(files))

\* what the claim expects of one call: nothing, one synthetic timeout result,
\* or the parsed results
ExpectedOf(call) ==
    IF call.run = "FileNotFoundError" THEN <<>>
    ELSE IF call.run = "TimeoutExpired"
         THEN <<[file_path |-> call.file_path, mutant_id |-> "timeout",
                 operator |-> "all", status |-> "timeout"]>>
         ELSE call.parsed

RECURSIVE ExpectedResults(_)
ExpectedResults(calls) ==
    IF calls = <<>> THEN <<>>
    ELSE ExpectedOf(Head(calls)) \o ExpectedResults(Tail(calls))

\* C25: run_mutations runs the mutation runner for exactly the listed files
\* that end in .py and exist, in list order; a file whose runner is not found
\* adds no result, a file whose run times out adds exactly one result with
\* status timeout, any other file adds its parsed results; tool_available
\* is true exactly when the runner was launched for at least one file; and a
\* synthetic timeout result counts in the total of compute_mutation_score but
\* not as killed.
C25_RunMutationsPerFile ==
    /\ mrun.pc \in {"returned", "scored"} =>
         /\ [k \in 1..Len(mrun.calls) |-> mrun.calls[k].file_path] = Processed(mrun.files)
         /\ mrun.all_results = ExpectedResults(mrun.calls)
         /\ mrun.tool_available <=>
              \E k \in 1..Len(mrun.calls) : mrun.calls[k].run # "FileNotFoundError"
    /\ mrun.pc = "scored" =>
         LET total == Len(mrun.all_results)
             killed == Cardinality({k \in 1..total : mrun.all_results[k].status = "killed"})
         IN  mrun.score = <<IF total = 0 THEN 10000 ELSE round1(killed * 10000, total)>>

\* three files: one skipped, one timed out, one with a killed mutant; the
\* timeout halves the score
C25_Witness ==
    /\ mrun.pc = "scored"
    /\ Len(mrun.files) = 3 /\ Len(mrun.calls) = 2
    /\ mrun.calls[1].run = "TimeoutExpired"
    /\ mrun.calls[2].run = "completed" /\ Len(mrun.calls[2].parsed) = 1
    /\ mrun.tool_available
    /\ mrun.score = <<5000>>

====
